---- MODULE Spec2Model ----
(***************************************************************************)
(* Model of the code-visualization service of codesense-ai:                *)
(*   backend/code_analyzer.py       static analyzer (generate_execution_   *)
(*                                  steps, GraphDetector, simulate_graph_  *)
(*                                  traversal)                             *)
(*   backend/universal_visualizer.py dynamic tracer (UniversalCodeTracer)  *)
(*   backend/main.py                /visualize endpoint                    *)
(*                                                                         *)
(* Python values are records tagged by their type in field t.  Strings     *)
(* that are node identifiers are numbered: PyStr(0) is the empty string,   *)
(* PyStr(1) < PyStr(2) < ... in lexicographic order.                       *)
(***************************************************************************)
EXTENDS Integers, Sequences, FiniteSets, TLC

\* ------------------------------------------------------------------ bounds
\* Node identifiers of the enumerated graphs are 0..MaxNode.
MaxNode == 2
\* Total number of neighbour entries of an enumerated adjacency list.
MaxEdges == 2
\* Total number of neighbour entries of a graph literal in an enumerated
\* source text.
MaxLiteralEdges == 1
\* Items of the list literal, and statements after it, in an enumerated
\* list program.
MaxListLen == 1
MaxOps == 3
\* Line events of one traced execution.
MaxTraceLines == 4
\* Assignments and detector keywords in an enumerated text handed to a
\* GraphDetector, and method calls made on the detector.
MaxVars == 2
MaxMarks == 3
MaxCalls == 2
MaxCacheCalls == 3
\* for/while/if statements are nested at most this deep in the enumerated texts.
MaxDepth == 2
\* UniversalCodeTracer.execute called on its own is given max_steps up to
\* this.
MaxStepsArg == 1
\* /explain and /detect-bugs requests in flight together.
MaxRequests == 2

\* ----------------------------------------------------------- Python values
PyNone == [t |-> "none"]
PyInt(n) == [t |-> "int", v |-> n]
PyStr(n) == [t |-> "str", v |-> n]
PyList(s) == [t |-> "list", items |-> s]
PyDict(s) == [t |-> "dict", items |-> s]
\* An int with more digits than str() converts (sys.get_int_max_str_digits).
PyHuge == [t |-> "hugeint"]
\* The text a non-literal expression degrades to (ast.unparse).
PyText == [t |-> "text"]

\* bool(x) as Python's `if x` / `not x` evaluates it.
Truthy(x) ==
    CASE x.t = "none" -> FALSE
      [] x.t \in {"int", "str"} -> x.v # 0
      [] x.t \in {"list", "dict", "tuple"} -> x.items # <<>>
      [] OTHER -> TRUE

\* hash(x) succeeds (x can be a dict key or a set member).
Hashable(x) == x.t \notin {"list", "dict"}

Range(s) == {s[i] : i \in 1..Len(s)}

\* d.keys(), d.values(), k in d, d.get(k, default) of an ordered dict.
DictKeys(d) == [i \in 1..Len(d.items) |-> d.items[i].k]
DictValues(d) == [i \in 1..Len(d.items) |-> d.items[i].v]
DictHas(d, key) == \E i \in 1..Len(d.items) : d.items[i].k = key
DictGet(d, key, default) ==
    IF DictHas(d, key)
    THEN d.items[CHOOSE i \in 1..Len(d.items) : d.items[i].k = key].v
    ELSE default

\* sorted(list(S)) for identifiers of one type: ascending by value.
RECURSIVE Sorted(_)
Sorted(S) ==
    IF S = {} THEN <<>>
    ELSE LET m == CHOOSE x \in S : \A y \in S : x.v <= y.v
         IN <<m>> \o Sorted(S \ {m})

\* sorted() raises TypeError: '<' between a str and an int.
SortRaises(S) == \E x, y \in S : x.t # y.t

\* ------------------------------------------------------------------ state
VARIABLES
    \* simulate_graph_traversal: arguments (start_arg is start_node as passed),
    \* locals and position
    graph_data, start_arg, start_node, algorithm,
    sim_pc, nodes, visited, structure, traversal_steps, current, nbr_i,
    \* generate_execution_steps: arguments, locals and position; parsed records
    \* that ast.parse was called, exc the exception raised inside the try block
    code, language,
    ges_pc, steps, variable_states, detector, step_num, stmt_i, parsed, exc,
    \* POST /visualize: position, the response, the analyzers invoked for the
    \* request, the tracer's steps and step_count, and the max_steps that
    \* execute was called with
    viz_pc, response, calls, tr_steps, step_count, max_steps,
    \* a GraphDetector used on its own (its fields are code, variable_states
    \* and detector): the methods called so far and the last return value
    det_calls, det_ret,
    \* the process: the iteration order its string hashing gives a set of
    \* string node identifiers (fixed when the interpreter starts), and the
    \* frames returned by an earlier call with the same arguments, wrapped in
    \* a one-item sequence (empty when there was no earlier call)
    hash_order, first_run,
    \* main.py's response cache (a dict, in insertion order), and a record of
    \* what was done to it: for each key present the time at which it entered
    \* the cache, and for each cache_response call so far its key, the number
    \* of entries it found, the key that had been present longest and the keys
    \* it removed
    response_cache, cache_entered, cache_log,
    \* the /explain and /detect-bugs requests being served (each with its
    \* position, the outcome of its AI call and its reply), and whether the
    \* API key and the model are set
    requests, ai_configured

simvars == <<graph_data, start_arg, start_node, algorithm,
             sim_pc, nodes, visited, structure, traversal_steps, current, nbr_i>>

gesvars == <<code, language,
             ges_pc, steps, variable_states, detector, step_num, stmt_i, parsed,
             exc>>

vizvars == <<viz_pc, response, calls, tr_steps, step_count, max_steps>>
detvars == <<det_calls, det_ret>>
procvars == <<hash_order, first_run>>
cachevars == <<response_cache, cache_entered, cache_log, requests, ai_configured>>
vars == <<simvars, gesvars, vizvars, detvars, procvars, cachevars>>

\* -------------------------------------------------- traversal simulator
\* The node a neighbour entry names: the first item of a weight-tagged tuple.
NeighborNode(nb) == IF nb.t = "tuple" THEN nb.items[1] ELSE nb

\* all_nodes: the keys and every node named as a neighbour.
AllNodes(edges) ==
    Range(DictKeys(edges)) \cup
    UNION {{NeighborNode(nb) : nb \in Range(DictValues(edges)[i].items)} :
              i \in 1..Len(edges.items)}

\* all_nodes.add(x) raises TypeError for an unhashable x.
AddRaises(edges) == \E x \in AllNodes(edges) : ~Hashable(x)

BfsName(alg, complete) ==
    IF alg = "bfs"
    THEN (IF complete THEN "BFS Traversal Complete" ELSE "BFS Traversal")
    ELSE (IF complete THEN "DFS Traversal Complete" ELSE "DFS Traversal")

\* list(visited): the items of a set in the set's iteration order.  Small
\* integers hash to themselves and come out ascending; strings come out in
\* the order the process's hash randomisation gives them.
ListOfSet(S, order) ==
    IF \A x \in S : x.t = "int"
    THEN Sorted(S)
    ELSE LET InS(x) == x \in S IN SelectSeq(order, InS)

\* The orders a process may give the string identifiers of a graph.
RECURSIVE Orderings(_)
Orderings(S) ==
    IF S = {} THEN {<<>>}
    ELSE UNION {{<<x>> \o p : p \in Orderings(S \ {x})} : x \in S}

HashOrders(edges) ==
    IF AddRaises(edges) THEN {<<>>}
    ELSE Orderings({x \in AllNodes(edges) : x.t = "str"})

\* The "graph" half of a frame.
GraphView(alg, complete, cur, vis, exploring) ==
    [name |-> BfsName(alg, complete), nodes |-> nodes, edges |-> graph_data,
     current_node |-> cur, visited |-> ListOfSet(vis, hash_order),
     exploring |-> exploring]

DsType(alg) == IF alg = "bfs" THEN "queue" ELSE "stack"
DsName(alg) == IF alg = "bfs" THEN "Queue" ELSE "Stack"
InsertOp(alg) == IF alg = "bfs" THEN "enqueue" ELSE "push"
RemoveOp(alg) == IF alg = "bfs" THEN "dequeue" ELSE "pop"

\* `if not start_node: return []`
NoStart(s) == ~Truthy(s)

\* structure.pop(0) for breadth-first, structure.pop() otherwise: the node
\* removed and what is left of the frontier.
PeekFrontier(alg, s) == [node |-> s[1], rest |-> s]
PopBack(alg, s) == [node |-> s[Len(s)], rest |-> SubSeq(s, 1, Len(s) - 1)]
PopFrontier(alg, s) ==
    IF alg = "bfs"
    THEN [node |-> s[1], rest |-> SubSeq(s, 2, Len(s))]
    ELSE [node |-> s[Len(s)], rest |-> SubSeq(s, 1, Len(s) - 1)]

\* `neighbor_node not in visited and neighbor_node not in structure`
ShouldInsertUnlessQueued(n, vis, s) == n \notin Range(s)
ShouldInsertUnlessVisited(n, vis, s) == n \notin vis
ShouldInsert(n, vis, s) == n \notin vis /\ n \notin Range(s)

\* neighbors = edges.get(current, [])
Reverse(s) == [i \in 1..Len(s) |-> s[Len(s) + 1 - i]]
NeighborsReversed(edges, cur) == Reverse(DictGet(edges, cur, PyList(<<>>)).items)
Neighbors(edges, cur) == DictGet(edges, cur, PyList(<<>>)).items

\* Lines 302-343: collect and sort the nodes, settle the start node, emit the
\* initial frame.
SimEnter ==
    /\ UNCHANGED <<gesvars, vizvars, detvars, hash_order, first_run,
                 cachevars>>
    /\ sim_pc = "call"
    /\ IF AddRaises(graph_data) \/ SortRaises(AllNodes(graph_data))
       THEN /\ sim_pc' = "raised"
            /\ UNCHANGED <<graph_data, start_arg, start_node, algorithm, nodes, visited,
                           structure, traversal_steps, current, nbr_i>>
       ELSE LET ns == Sorted(AllNodes(graph_data))
                s == IF start_node \notin Range(ns)
                     THEN (IF ns # <<>> THEN ns[1] ELSE PyNone)
                     ELSE start_node
            IN /\ nodes' = ns
               /\ start_node' = s
               /\ IF NoStart(s)
                  THEN /\ traversal_steps' = <<>>
                       /\ sim_pc' = "returned"
                       /\ UNCHANGED <<visited, structure>>
                  ELSE /\ visited' = {}
                       /\ structure' = <<s>>
                       /\ traversal_steps' =
                            <<[graph |-> [name |-> BfsName(algorithm, FALSE),
                                          nodes |-> ns, edges |-> graph_data,
                                          current_node |-> PyNone,
                                          visited |-> <<>>, exploring |-> <<>>],
                               data_structure |->
                                   [type |-> DsType(algorithm),
                                    name |-> DsName(algorithm),
                                    data |-> <<s>>,
                                    highlight |-> <<0>>,
                                    operation |-> InsertOp(algorithm)]]>>
                       /\ sim_pc' = "loop"
               /\ UNCHANGED <<graph_data, start_arg, algorithm, current, nbr_i>>

\* Lines 345-375: one pass of `while structure:` up to the neighbour loop.
SimRemove ==
    /\ UNCHANGED <<gesvars, vizvars, detvars, hash_order, first_run,
                 cachevars>>
    /\ sim_pc = "loop"
    /\ structure # <<>>
    /\ LET cur == PopFrontier(algorithm, structure).node
           rest == PopFrontier(algorithm, structure).rest
       IN /\ structure' = rest
          /\ IF cur \in visited
             THEN UNCHANGED <<sim_pc, visited, traversal_steps, current, nbr_i>>
             ELSE /\ visited' = visited \cup {cur}
                  /\ traversal_steps' = Append(traversal_steps,
                       [graph |-> GraphView(algorithm, FALSE, cur,
                                            visited \cup {cur}, <<>>),
                        data_structure |->
                            [type |-> DsType(algorithm),
                             name |-> DsName(algorithm),
                             data |-> rest,
                             removed_value |-> cur,
                             operation |-> RemoveOp(algorithm)]])
                  /\ current' = cur
                  /\ nbr_i' = 1
                  /\ sim_pc' = IF Neighbors(graph_data, cur) = <<>>
                               THEN "loop" ELSE "neighbors"
    /\ UNCHANGED <<graph_data, start_arg, start_node, algorithm, nodes>>

\* Lines 377-403: one pass of `for neighbor in neighbors:`.
SimNeighbor ==
    /\ UNCHANGED <<gesvars, vizvars, detvars, hash_order, first_run,
                 cachevars>>
    /\ sim_pc = "neighbors"
    /\ LET nbrs == Neighbors(graph_data, current)
           n == NeighborNode(nbrs[nbr_i])
       IN /\ IF ShouldInsert(n, visited, structure)
             THEN /\ structure' = Append(structure, n)
                  /\ traversal_steps' = Append(traversal_steps,
                       [graph |-> GraphView(algorithm, FALSE, current,
                                            visited, <<n>>),
                        data_structure |->
                            [type |-> DsType(algorithm),
                             name |-> DsName(algorithm),
                             data |-> Append(structure, n),
                             highlight |-> <<Len(structure)>>,
                             operation |-> InsertOp(algorithm)]])
             ELSE UNCHANGED <<structure, traversal_steps>>
          /\ nbr_i' = nbr_i + 1
          /\ sim_pc' = IF nbr_i = Len(nbrs) THEN "loop" ELSE "neighbors"
    /\ UNCHANGED <<graph_data, start_arg, start_node, algorithm, nodes, visited, current>>

\* Lines 405-423: the frontier is empty; emit the final frame and return.
SimComplete ==
    /\ UNCHANGED <<gesvars, vizvars, detvars, hash_order, first_run,
                 cachevars>>
    /\ sim_pc = "loop"
    /\ structure = <<>>
    /\ traversal_steps' = Append(traversal_steps,
         [graph |-> GraphView(algorithm, TRUE, PyNone, visited, <<>>),
          data_structure |->
              [type |-> DsType(algorithm),
               name |-> DsName(algorithm),
               data |-> <<>>,
               operation |-> "None"]])
    /\ sim_pc' = "returned"
    /\ UNCHANGED <<graph_data, start_arg, start_node, algorithm, nodes, visited,
                   structure, current, nbr_i>>

\* simulate_graph_traversal is called once more with the arguments of the
\* call that has returned, in this process or in another one (whose string
\* hashing may order a set differently); the earlier frames are kept.
SimCallAgain ==
    /\ UNCHANGED <<gesvars, vizvars, detvars, cachevars>>
    /\ sim_pc = "returned"
    /\ first_run = <<>>
    /\ first_run' = <<traversal_steps>>
    /\ hash_order' \in HashOrders(graph_data)
    /\ start_node' = start_arg
    /\ sim_pc' = "call"
    /\ nodes' = <<>>
    /\ visited' = {}
    /\ structure' = <<>>
    /\ traversal_steps' = <<>>
    /\ current' = PyNone
    /\ nbr_i' = 0
    /\ UNCHANGED <<graph_data, start_arg, algorithm>>

SimStep == SimEnter \/ SimRemove \/ SimNeighbor \/ SimComplete

\* ------------------------------------------------------------ source text
(***************************************************************************)
(* A source text is held as what ast.parse makes of it:                    *)
(*   syntax  the lineno of the SyntaxError it raises (NoLine when the      *)
(*           error carries none), Parses when it parses, ParseRaises when  *)
(*           ast.parse raises another exception                            *)
(*   body    tree.body, one statement per line, line i holding body[i]     *)
(*   marks   substrings the detector looks for that occur in the text      *)
(*           outside the statements of body (comments, nested code)        *)
(* Statements:  [op |-> "assign", target, value]   target = value          *)
(*              [op |-> "append", obj, arg]        obj.append(arg)         *)
(*              [op |-> "pop", obj, index]         obj.pop(), obj.pop(0),  *)
(*                                                 obj.pop(k)              *)
(*              [op |-> "other"]                   anything else           *)
(*              [op |-> "block", kind, body, orelse]                       *)
(*                                 for/while/if: the header line, the      *)
(*                                 body, and after an `else:` line the     *)
(*                                 statements of orelse                    *)
(* Expressions: [n |-> "Constant", value], [n |-> "List", elts],           *)
(*              [n |-> "Dict", keys, values], [n |-> "Name", id],          *)
(*              [n |-> "BinOp"]  a product of constants too long for str() *)
(***************************************************************************)
Parses == -2
NoLine == -1
\* ast.parse raises something other than SyntaxError (RecursionError on a
\* deeply nested expression, ValueError on a null byte).
ParseRaises == -3

Constant(v) == [n |-> "Constant", value |-> v]
ListExpr(es) == [n |-> "List", elts |-> es]
DictExpr(ks, vs) == [n |-> "Dict", keys |-> ks, values |-> vs]
HugeProduct == [n |-> "BinOp"]
CallExpr(func) == [n |-> "Call", func |-> func]
\* obj.pop(): a call whose func is an attribute, not a name.
PopCall(obj) == [n |-> "MethodCall", obj |-> obj, attr |-> "pop"]

\* ast.iter_child_nodes on a statement: the statements of body, then those
\* of orelse (the expressions among the children are neither assignments nor
\* expression statements).
ChildStatements(st) == IF st.op = "block" THEN st.body \o st.orelse ELSE <<>>

\* ast.walk: breadth first, a node's children joining the end of the queue.
RECURSIVE AstWalk(_)
AstWalk(todo) ==
    IF todo = <<>> THEN <<>>
    ELSE <<todo[1]>> \o AstWalk(Tail(todo) \o ChildStatements(todo[1]))

\* The number of source lines a statement takes.
RECURSIVE LineCount(_), SumLines(_)
LineCount(st) ==
    IF st.op = "block"
    THEN 1 + SumLines(st.body)
           + (IF st.orelse = <<>> THEN 0 ELSE 1 + SumLines(st.orelse))
    ELSE 1
SumLines(stmts) ==
    IF stmts = <<>> THEN 0 ELSE LineCount(stmts[1]) + SumLines(Tail(stmts))

\* node.lineno of the i-th statement of tree.body.
LineOf(body, i) == 1 + SumLines(SubSeq(body, 1, i - 1))

\* result[k] = v on an ordered dict.
DictSet(d, key, val) ==
    IF DictHas(d, key)
    THEN PyDict([i \in 1..Len(d.items) |->
                   IF d.items[i].k = key THEN [k |-> key, v |-> val]
                   ELSE d.items[i]])
    ELSE PyDict(Append(d.items, [k |-> key, v |-> val]))

\* safe_eval_value: literal-only evaluation; whatever raises inside it is
\* swallowed and the expression's text returned instead.
RECURSIVE safe_eval_value(_)
RECURSIVE EvalDictItems(_, _, _)
EvalDictItems(ks, vs, acc) ==
    IF ks = <<>> \/ vs = <<>> THEN acc
    ELSE EvalDictItems(Tail(ks), Tail(vs),
                       IF safe_eval_value(ks[1]).t = "none" THEN acc
                       ELSE DictSet(acc, safe_eval_value(ks[1]),
                                    safe_eval_value(vs[1])))
safe_eval_value(node) ==
    CASE node.n = "Constant" -> node.value
      [] node.n = "List" ->
           PyList([i \in 1..Len(node.elts) |-> safe_eval_value(node.elts[i])])
      [] node.n = "Dict" ->
           IF \E i \in 1..Len(node.keys) : ~Hashable(safe_eval_value(node.keys[i]))
           THEN PyText
           ELSE EvalDictItems(node.keys, node.values, PyDict(<<>>))
      [] node.n = "BinOp" -> PyHuge
      [] OTHER -> PyText

\* detect_type
DetectTypeOfLiterals(node) ==
    CASE node.n = "List" -> "list"
      [] node.n = "Dict" -> "dict"
      [] node.n = "Constant" ->
           (CASE node.value.t = "int" -> "int"
              [] node.value.t = "str" -> "string"
              [] node.value.t = "none" -> "none"
              [] OTHER -> "unknown")
      [] OTHER -> "unknown"
detect_type(node) ==
    CASE node.n = "List" -> "list"
      [] node.n = "Dict" -> "dict"
      [] node.n = "Constant" ->
           (CASE node.value.t = "int" -> "int"
              [] node.value.t = "str" -> "string"
              [] node.value.t = "none" -> "none"
              [] OTHER -> "unknown")
      [] node.n = "Call" ->
           IF node.func \in {"list", "dict", "set", "tuple", "deque"}
           THEN node.func ELSE "unknown"
      [] OTHER -> "unknown"

\* str(x) / f"{x}" raises ValueError: the int exceeds the digit limit of
\* int-to-str conversion (also inside a list, whose repr formats each item).
RECURSIVE FormatRaises(_)
FormatRaises(x) ==
    CASE x.t = "hugeint" -> TRUE
      [] x.t = "list" -> \E i \in 1..Len(x.items) : FormatRaises(x.items[i])
      [] OTHER -> FALSE

\* The role tests on a variable name (substring tests on name.lower()).
IsStackName(name) == name \in {"stack", "queue_stack", "s", "st", "stk"}
IsQueueName(name) == name \in {"queue", "queue_stack", "seen_queue", "q", "qu"}
IsVisitedName(name) == name \in {"visited", "seen", "seen_queue"}

\* The substrings of the detector that a statement's own text contains.
StmtText(st) ==
    CASE st.op = "append" -> {".append("}
      [] st.op = "pop" ->
           (CASE st.index = "none" -> {".pop()"}
              [] st.index = "zero" -> {".pop(0)"}
              [] OTHER -> {})
      [] st.op = "assign" /\ st.value.n = "MethodCall" -> {".pop()"}
      [] OTHER -> {}

\* `sub in code`
CodeHas(text, sub) ==
    \/ sub \in text.marks
    \/ \E st \in Range(AstWalk(text.body)) : sub \in StmtText(st)

\* language.lower()
Lower(l) ==
    CASE l \in {"python", "Python", "PYTHON"} -> "python"
      [] l \in {"javascript", "JavaScript"} -> "javascript"
      [] l \in {"java", "Java"} -> "java"
      [] OTHER -> l

\* `language.lower() != "python"` (code_analyzer.py line 438, main.py line 470)
AnyLanguage(l) == TRUE
IsPython(l) == Lower(l) = "python"

\* -------------------------------------------------------- variable_states
\* variable_states is an insertion-ordered dict: a sequence of entries, one
\* per name, each keeping the position of the name's first assignment.
VSHas(vs, name) == \E i \in 1..Len(vs) : vs[i].name = name
VSGet(vs, name) == vs[CHOOSE i \in 1..Len(vs) : vs[i].name = name]
VSSet(vs, entry) ==
    IF VSHas(vs, entry.name)
    THEN [i \in 1..Len(vs) |-> IF vs[i].name = entry.name THEN entry ELSE vs[i]]
    ELSE Append(vs, entry)

\* Lines 463-479: the entry phase 1 stores for `target = value`.
StateEntry(st) ==
    LET actual_value == safe_eval_value(st.value)
    IN [name |-> st.target,
        type |-> detect_type(st.value),
        value |-> actual_value,
        data |-> IF actual_value.t \in {"list", "dict", "set"}
                 THEN actual_value ELSE PyNone,
        is_stack |-> IsStackName(st.target),
        is_queue |-> IsQueueName(st.target),
        is_visited |-> IsVisitedName(st.target)]

\* Lines 459-479: every assignment to a name, in ast.walk order.
RECURSIVE CollectFrom(_, _)
CollectFrom(walk, vs) ==
    IF walk = <<>> THEN vs
    ELSE CollectFrom(Tail(walk),
                     IF walk[1].op = "assign" THEN VSSet(vs, StateEntry(walk[1]))
                     ELSE vs)
CollectStates(body, vs) == CollectFrom(AstWalk(body), vs)

\* ---------------------------------------------------------- GraphDetector
is_adjacency_list(data) ==
    /\ data.t = "dict"
    /\ data.items # <<>>
    /\ \A i \in 1..Len(data.items) : data.items[i].v.t = "list"

is_edge_list(data) ==
    /\ data.t = "list"
    /\ data.items # <<>>
    /\ \A i \in 1..Len(data.items) :
          /\ data.items[i].t \in {"tuple", "list"}
          /\ Len(data.items[i].items) >= 2

\* `u not in adj_list` raises TypeError for an unhashable endpoint.
EdgeListRaises(edges) ==
    \E i \in 1..Len(edges.items) :
        \/ ~Hashable(edges.items[i].items[1])
        \/ ~Hashable(edges.items[i].items[2])

RECURSIVE EdgesIntoSourcesOnly(_, _)
EdgesIntoSourcesOnly(edges, adj) ==
    IF edges = <<>> THEN adj
    ELSE LET edge == edges[1].items
             u == edge[1]
             v == edge[2]
             a1 == IF DictHas(adj, u) THEN adj ELSE DictSet(adj, u, PyList(<<>>))
             nb == IF Len(edge) > 2
                   THEN [t |-> "tuple", items |-> <<v, edge[3]>>] ELSE v
             a3 == DictSet(a1, u, PyList(Append(DictGet(a1, u, PyList(<<>>)).items, nb)))
         IN EdgesIntoSourcesOnly(Tail(edges), a3)
RECURSIVE EdgesInto(_, _)
EdgesInto(edges, adj) ==
    IF edges = <<>> THEN adj
    ELSE LET edge == edges[1].items
             u == edge[1]
             v == edge[2]
             a1 == IF DictHas(adj, u) THEN adj ELSE DictSet(adj, u, PyList(<<>>))
             a2 == IF DictHas(a1, v) THEN a1 ELSE DictSet(a1, v, PyList(<<>>))
             nb == IF Len(edge) > 2
                   THEN [t |-> "tuple", items |-> <<v, edge[3]>>] ELSE v
             a3 == DictSet(a2, u, PyList(Append(DictGet(a2, u, PyList(<<>>)).items, nb)))
         IN EdgesInto(Tail(edges), a3)
edge_list_to_adjacency_list(edges) == EdgesInto(edges.items, PyDict(<<>>))

\* find_graph: the first adjacency-list dict, else the first edge list.
IsDictGraph(state) == state.type = "dict" /\ is_adjacency_list(state.data)
IsListGraph(state) == state.type = "list" /\ is_edge_list(state.data)
FirstDictGraph(vs) ==
    IF \E i \in 1..Len(vs) : IsDictGraph(vs[i])
    THEN CHOOSE i \in 1..Len(vs) :
            IsDictGraph(vs[i]) /\ \A j \in 1..(i - 1) : ~IsDictGraph(vs[j])
    ELSE 0
FirstListGraph(vs) ==
    IF \E i \in 1..Len(vs) : IsListGraph(vs[i])
    THEN CHOOSE i \in 1..Len(vs) :
            IsListGraph(vs[i]) /\ \A j \in 1..(i - 1) : ~IsListGraph(vs[j])
    ELSE 0
FindGraphEdgeListFirst(vs) ==
    LET d == FirstDictGraph(vs)
        l == FirstListGraph(vs)
    IN IF l # 0
       THEN (IF EdgeListRaises(vs[l].data)
             THEN [raised |-> TRUE, graph_var |-> "None", graph_data |-> PyNone]
             ELSE [raised |-> FALSE, graph_var |-> vs[l].name,
                   graph_data |-> edge_list_to_adjacency_list(vs[l].data)])
       ELSE IF d # 0
       THEN [raised |-> FALSE, graph_var |-> vs[d].name, graph_data |-> vs[d].data]
       ELSE [raised |-> FALSE, graph_var |-> "None", graph_data |-> PyNone]
find_graph(vs) ==
    LET d == FirstDictGraph(vs)
        l == FirstListGraph(vs)
    IN IF d # 0
       THEN [raised |-> FALSE, graph_var |-> vs[d].name, graph_data |-> vs[d].data]
       ELSE IF l # 0
       THEN (IF EdgeListRaises(vs[l].data)
             THEN [raised |-> TRUE, graph_var |-> "None", graph_data |-> PyNone]
             ELSE [raised |-> FALSE, graph_var |-> vs[l].name,
                   graph_data |-> edge_list_to_adjacency_list(vs[l].data)])
       ELSE [raised |-> FALSE, graph_var |-> "None", graph_data |-> PyNone]

\* Lines 275-285: some call in the text, wherever it stands, names a function
\* the text defines.  A text marks such a call as made inside the body of the
\* function called or outside it.
CallsDefinedFunction(text) ==
    \/ CodeHas(text, "call of a defined function in its own body")
    \/ CodeHas(text, "call of a defined function from outside its body")

\* detect_algorithm: the first rule that matches, top to bottom.
DetectDepthFirstBeforeBreadthFirst(text, vs, graph_var) ==
    IF graph_var = "None" THEN "None"
    ELSE IF (CodeHas(text, "heapq") \/ CodeHas(text, "priorityqueue")
                \/ CodeHas(text, "heappush"))
            /\ CodeHas(text, "dist")
    THEN "dijkstra"
    ELSE IF CodeHas(text, "indegree") \/ CodeHas(text, "in_degree")
    THEN "topological_sort"
    ELSE IF CodeHas(text, "parent") /\ (CodeHas(text, "union") \/ CodeHas(text, "find"))
    THEN "union_find"
    ELSE IF (CodeHas(text, "mst") \/ CodeHas(text, "minimum spanning tree"))
            /\ (CodeHas(text, "heapq") \/ CodeHas(text, "priorityqueue"))
    THEN "prim"
    ELSE IF CodeHas(text, ".pop()") /\ CodeHas(text, ".append(")
    THEN "dfs"
    ELSE IF (CodeHas(text, ".pop(0)") \/ CodeHas(text, ".popleft()"))
            /\ \E i \in 1..Len(vs) : vs[i].type \in {"list", "deque"}
    THEN "bfs"
    ELSE IF CodeHas(text, "def ") /\ CallsDefinedFunction(text)
    THEN "dfs_recursive"
    ELSE "generic"
detect_algorithm(text, vs, graph_var) ==
    IF graph_var = "None" THEN "None"
    ELSE IF (CodeHas(text, "heapq") \/ CodeHas(text, "priorityqueue")
                \/ CodeHas(text, "heappush"))
            /\ CodeHas(text, "dist")
    THEN "dijkstra"
    ELSE IF CodeHas(text, "indegree") \/ CodeHas(text, "in_degree")
    THEN "topological_sort"
    ELSE IF CodeHas(text, "parent") /\ (CodeHas(text, "union") \/ CodeHas(text, "find"))
    THEN "union_find"
    ELSE IF (CodeHas(text, "mst") \/ CodeHas(text, "minimum spanning tree"))
            /\ (CodeHas(text, "heapq") \/ CodeHas(text, "priorityqueue"))
    THEN "prim"
    ELSE IF (CodeHas(text, ".pop(0)") \/ CodeHas(text, ".popleft()"))
            /\ \E i \in 1..Len(vs) : vs[i].type \in {"list", "deque"}
    THEN "bfs"
    ELSE IF CodeHas(text, ".pop()") /\ CodeHas(text, ".append(")
    THEN "dfs"
    ELSE IF CodeHas(text, "def ") /\ CallsDefinedFunction(text)
    THEN "dfs_recursive"
    ELSE "generic"

\* Nothing returned yet.
NoReturn == [raised |-> FALSE, value |-> "nothing"]

\* A find_graph() whose conversion takes the edges out of the list it reads.
Detector_find_graph_consuming ==
    /\ ges_pc = "detector"
    /\ Len(det_calls) < MaxCalls
    /\ det_calls' = Append(det_calls, "find_graph")
    /\ LET fg == find_graph(variable_states)
           l == FirstListGraph(variable_states)
       IN IF fg.raised
          THEN /\ det_ret' = [raised |-> TRUE, value |-> "TypeError"]
               /\ UNCHANGED <<detector, variable_states>>
          ELSE /\ det_ret' = [raised |-> FALSE,
                              value |-> <<fg.graph_var, fg.graph_data>>]
               /\ detector' = IF fg.graph_var = "None" THEN detector
                              ELSE [detector EXCEPT !.graph_var = fg.graph_var,
                                                    !.graph_data = fg.graph_data]
               /\ variable_states' =
                     IF FirstDictGraph(variable_states) = 0 /\ l # 0
                     THEN [variable_states EXCEPT ![l].data = PyList(<<>>),
                                                  ![l].value = PyList(<<>>)]
                     ELSE variable_states
    /\ UNCHANGED <<code, language, ges_pc, steps, step_num,
                   stmt_i, parsed, exc, simvars, vizvars, procvars,
                   cachevars>>

\* find_graph() called on the detector (lines 210-230): sets graph_var and
\* graph_data when it finds a graph; raises before setting anything when the
\* conversion of the edge list raises.
Detector_find_graph ==
    /\ ges_pc = "detector"
    /\ Len(det_calls) < MaxCalls
    /\ det_calls' = Append(det_calls, "find_graph")
    /\ LET fg == find_graph(variable_states)
       IN IF fg.raised
          THEN /\ det_ret' = [raised |-> TRUE, value |-> "TypeError"]
               /\ UNCHANGED detector
          ELSE /\ det_ret' = [raised |-> FALSE,
                              value |-> <<fg.graph_var, fg.graph_data>>]
               /\ detector' = IF fg.graph_var = "None" THEN detector
                              ELSE [detector EXCEPT !.graph_var = fg.graph_var,
                                                    !.graph_data = fg.graph_data]
    /\ UNCHANGED <<code, language, ges_pc, steps, variable_states, step_num,
                   stmt_i, parsed, exc, simvars, vizvars, procvars,
                   cachevars>>

\* detect_algorithm() called on the detector (lines 232-289): returns None
\* and sets nothing while graph_var is unset.
Detector_detect_algorithm ==
    /\ ges_pc = "detector"
    /\ Len(det_calls) < MaxCalls
    /\ det_calls' = Append(det_calls, "detect_algorithm")
    /\ LET alg == detect_algorithm(code, variable_states, detector.graph_var)
       IN /\ det_ret' = [raised |-> FALSE, value |-> alg]
          /\ detector' = IF alg = "None" THEN detector
                         ELSE [detector EXCEPT !.algorithm = alg]
    /\ UNCHANGED <<code, language, ges_pc, steps, variable_states, step_num,
                   stmt_i, parsed, exc, simvars, vizvars, procvars,
                   cachevars>>

DetStep == Detector_find_graph \/ Detector_detect_algorithm

\* -------------------------------------------------- generate_execution_steps
Step(n, line, text, description, visualization) ==
    [step |-> n, line |-> line, code |-> text, description |-> description,
     visualization |-> visualization]

\* str(x)
StrOf(x) == [t |-> "str()", of |-> x]

\* `e.lineno or 0`
LinenoOrZero(lineno) == IF lineno = NoLine \/ lineno = 0 THEN 0 ELSE lineno

\* Lines 439-448
UnsupportedLanguageSteps ==
    <<Step(0, 1, [text |-> "visualization coming soon"],
           "Currently only Python is supported",
           [type |-> "none", message |-> "Tip"])>>

\* Lines 785-794
SyntaxErrorAtLineOne(lineno) ==
    <<Step(0, 1, [text |-> ""], "Syntax Error",
           [type |-> "error", message |-> "Fix the syntax error"])>>
SyntaxErrorSteps(lineno) ==
    <<Step(0, LinenoOrZero(lineno), [text |-> ""], "Syntax Error",
           [type |-> "error", message |-> "Fix the syntax error"])>>

\* Lines 801-810: the handler's value of steps, whatever steps held.
AnalysisErrorAppended(accumulated) ==
    Append(accumulated,
           Step(0, 0, [text |-> ""], "Analysis Error",
                [type |-> "error", message |-> "Could not analyze code"]))
AnalysisErrorSteps(accumulated) ==
    <<Step(0, 0, [text |-> ""], "Analysis Error",
           [type |-> "error", message |-> "Could not analyze code"])>>

\* Lines 773-782
PlaceholderStep ==
    Step(0, 1, [text |-> "# No visualizable operations found"],
         "Try code with: BFS/DFS graph traversal, stacks, arrays, queues",
         [type |-> "none", message |-> "Example"])

\* Lines 506-517: one step per simulator frame, in frame order.
TraversalSteps(frames, alg) ==
    [i \in 1..Len(frames) |->
        Step(i - 1, 1,
             [text |-> BfsName(alg, FALSE), i |-> i, of |-> Len(frames)],
             IF alg = "bfs" THEN "Breadth-First Search algorithm in progress"
             ELSE "Depth-First Search algorithm in progress",
             [type |-> "graph_with_ds",
              graph |-> frames[i].graph,
              data_structure |-> frames[i].data_structure])]

\* Lines 521-538
GenericGraphStep(graph_name, gd) ==
    Step(0, 1, [text |-> "graph =", name |-> graph_name],
         "Graph structure",
         [type |-> "graph",
          name |-> IF graph_name = "None" THEN "graph" ELSE graph_name,
          nodes |-> DictKeys(gd),
          edges |-> gd])

\* Lines 493-501: the value of a start variable that is a key of the graph,
\* else the graph's first key.  `start_val in graph_data` hashes start_val.
StartNames == <<"start", "source", "root", "begin">>
StartCandidates(vs, gd) ==
    SelectSeq(StartNames,
              LAMBDA name : VSHas(vs, name) /\ DictHas(gd, VSGet(vs, name).value))
StartLookupRaises(vs, gd) ==
    \E i \in 1..Len(StartNames) :
        /\ VSHas(vs, StartNames[i])
        /\ ~Hashable(VSGet(vs, StartNames[i]).value)
        /\ \A j \in 1..(i - 1) :
              ~(VSHas(vs, StartNames[j]) /\ DictHas(gd, VSGet(vs, StartNames[j]).value))
ChooseStart(vs, gd) ==
    LET found == IF StartCandidates(vs, gd) = <<>> THEN PyNone
                 ELSE VSGet(vs, StartCandidates(vs, gd)[1]).value
    IN IF ~Truthy(found)
       THEN (IF Truthy(gd) THEN DictKeys(gd)[1] ELSE PyNone)
       ELSE found

\* `if start_node:` (line 503)
StartOk(s) == Truthy(s)

\* lines[node.lineno - 1].strip(): the text of source line `line`.
LineCode(line) == [text |-> "source line", line |-> line]

\* list(range(len(data))) if data else []
RangeList(data) == [i \in 1..Len(data) |-> i - 1]

\* Lines 550-659: the step for `target = value` (a name target).
AssignStep(st, line, w) ==
    LET var_type == detect_type(st.value)
        actual_value == safe_eval_value(st.value)
        initial_data == IF st.value.n = "List" THEN actual_value.items ELSE <<>>
        entry == VSGet(w.vs, st.target)
    IN CASE var_type = "dict" ->
              Step(w.step_num, line, LineCode(line), "Create dictionary",
                   [type |-> "dict", name |-> st.target,
                    data |-> IF actual_value.t = "dict" THEN actual_value
                             ELSE PyDict(<<>>)])
         [] var_type = "list" /\ entry.is_stack ->
              Step(w.step_num, line, LineCode(line), "Create stack",
                   [type |-> "stack", name |-> st.target, data |-> initial_data,
                    highlight |-> IF initial_data # <<>>
                                  THEN <<Len(initial_data) - 1>> ELSE <<>>,
                    operation |-> "None"])
         [] var_type = "list" /\ ~entry.is_stack /\ entry.is_queue ->
              Step(w.step_num, line, LineCode(line), "Create queue",
                   [type |-> "queue", name |-> st.target, data |-> initial_data,
                    highlight |-> RangeList(initial_data)])
         [] var_type = "list" /\ ~entry.is_stack /\ ~entry.is_queue
                /\ entry.is_visited ->
              Step(w.step_num, line, LineCode(line), "Create visited set",
                   [type |-> "visited", name |-> st.target, data |-> initial_data,
                    highlight |-> RangeList(initial_data)])
         [] var_type = "list" /\ ~entry.is_stack /\ ~entry.is_queue
                /\ ~entry.is_visited ->
              Step(w.step_num, line, LineCode(line), "Create array",
                   [type |-> "array", name |-> st.target, data |-> initial_data,
                    highlight |-> RangeList(initial_data)])
         [] OTHER ->
              Step(w.step_num, line, LineCode(line), "Set",
                   [type |-> "variable", name |-> st.target,
                    value |-> StrOf(actual_value), var_type |-> var_type])

\* The statement is obj.append/obj.pop on a name that phase 1 recorded as a list.
OnKnownList(st, w) == VSHas(w.vs, st.obj) /\ VSGet(w.vs, st.obj).type = "list"

\* variable_states[obj_name]["data"] = current_data
WithData(vs, name, data) ==
    [i \in 1..Len(vs) |->
        IF vs[i].name = name THEN [vs[i] EXCEPT !.data = PyList(data)] ELSE vs[i]]

\* Lines 712-734: what a pop removes and leaves: the first item for pop(0),
\* the last item otherwise.
PopEffect(index, data) ==
    IF index = "zero"
    THEN [is_dequeue |-> TRUE, popped_value |-> data[1],
          current_data |-> SubSeq(data, 2, Len(data))]
    ELSE [is_dequeue |-> FALSE, popped_value |-> data[Len(data)],
          current_data |-> SubSeq(data, 1, Len(data) - 1)]

\* process_statement (lines 545-764) on one statement at source line `line`.
\* w holds steps, variable_states (vs) and step_num; raised is set when
\* building the step raises, which leaves the three as they were.
RECURSIVE ProcessStatement(_, _, _), ProcessStatements(_, _, _)
\* A walk that handles the first statement of a list only.
ProcessFirstOnly(stmts, line, w) ==
    IF stmts = <<>> \/ w.raised THEN w ELSE ProcessStatement(stmts[1], line, w)
\* Lines 758-764 and 767-768: process_statement on each statement of a list,
\* the first at source line `line`; an exception ends the walk.
ProcessStatements(stmts, line, w) ==
    IF stmts = <<>> \/ w.raised THEN w
    ELSE ProcessStatements(Tail(stmts), line + LineCount(stmts[1]),
                           ProcessStatement(stmts[1], line, w))
ProcessStatement(st, line, w) ==
    CASE st.op = "assign" ->
           IF detect_type(st.value) \notin {"dict", "list"}
              /\ FormatRaises(safe_eval_value(st.value))
           THEN [w EXCEPT !.raised = TRUE]
           ELSE [w EXCEPT !.steps = Append(w.steps, AssignStep(st, line, w)),
                          !.step_num = w.step_num + 1]
      [] st.op = "append" /\ OnKnownList(st, w) ->
           LET entry == VSGet(w.vs, st.obj)
               new_value == safe_eval_value(st.arg)
               current_data ==
                   Append(IF Truthy(entry.data) THEN entry.data.items ELSE <<>>,
                          new_value)
           IN IF FormatRaises(new_value)
              THEN [w EXCEPT !.raised = TRUE]
              ELSE [w EXCEPT
                     !.steps = Append(w.steps,
                        Step(w.step_num, line, LineCode(line),
                             IF entry.is_stack THEN "Push"
                             ELSE IF entry.is_queue THEN "Enqueue" ELSE "Append",
                             [type |-> IF entry.is_stack THEN "stack"
                                       ELSE IF entry.is_queue THEN "queue"
                                       ELSE "array",
                              name |-> st.obj,
                              data |-> current_data,
                              highlight |-> <<Len(current_data) - 1>>,
                              operation |-> IF entry.is_stack THEN "push"
                                            ELSE IF entry.is_queue THEN "enqueue"
                                            ELSE "push_back"])),
                     !.vs = WithData(w.vs, st.obj, current_data),
                     !.step_num = w.step_num + 1]
      [] st.op = "pop" /\ OnKnownList(st, w)
            /\ Truthy(VSGet(w.vs, st.obj).data) ->
           LET entry == VSGet(w.vs, st.obj)
               e == PopEffect(st.index, entry.data.items)
           IN IF FormatRaises(e.popped_value)
              THEN [w EXCEPT !.raised = TRUE]
              ELSE [w EXCEPT
                     !.steps = Append(w.steps,
                        Step(w.step_num, line, LineCode(line),
                             IF entry.is_stack THEN "Pop"
                             ELSE IF e.is_dequeue THEN "Dequeue" ELSE "Remove",
                             [type |-> IF entry.is_stack THEN "stack"
                                       ELSE IF e.is_dequeue THEN "queue"
                                       ELSE "array",
                              name |-> st.obj,
                              data |-> e.current_data,
                              highlight |-> <<>>,
                              operation |-> "pop",
                              removed_value |-> e.popped_value])),
                     !.vs = WithData(w.vs, st.obj, e.current_data),
                     !.step_num = w.step_num + 1]
      [] st.op = "block" ->
           ProcessStatements(st.orelse, line + 2 + SumLines(st.body),
                             ProcessStatements(st.body, line + 1, w))
      [] OTHER -> w

\* `algorithm == 'generic'` (line 521)
IsNonTraversalTag(alg) == alg \notin {"bfs", "dfs"}
IsGenericTag(alg) == alg = "generic"

\* Lines 483-540: which of the three sources produces the output.
\*   "error"     extracting the graph or looking up the start raised
\*   "simulate"  (a) a traversal tag, a graph and a usable start node
\*   "generic"   (b) a graph and the generic tag
\*   "walk"      (c) the per-statement walk
Dispatch(vs, fg, alg) ==
    IF fg.raised THEN "error"
    ELSE IF alg \in {"bfs", "dfs"} /\ Truthy(fg.graph_data)
            /\ StartLookupRaises(vs, fg.graph_data)
    THEN "error"
    ELSE IF alg \in {"bfs", "dfs"} /\ Truthy(fg.graph_data)
            /\ StartOk(ChooseStart(vs, fg.graph_data))
    THEN "simulate"
    ELSE IF Truthy(fg.graph_data) /\ IsGenericTag(alg)
    THEN "generic"
    ELSE "walk"

\* Lines 772-782: an empty walk result gets the placeholder step.
WalkResultAsIs(s) == s
WalkResult(s) == IF s = <<>> THEN <<PlaceholderStep>> ELSE s

GesReturn(result, raised) ==
    /\ steps' = result
    /\ exc' = raised
    /\ ges_pc' = "done"

\* Lines 436-540: the language test, the parse, phases 1 to 3.
GES_Enter ==
    /\ UNCHANGED <<vizvars, detvars, procvars, cachevars>>
    /\ ges_pc = "call"
    /\ IF ~IsPython(language)
       THEN /\ GesReturn(UnsupportedLanguageSteps, "none")
            /\ UNCHANGED <<variable_states, detector, step_num, stmt_i, parsed,
                           simvars>>
       ELSE IF code.syntax = ParseRaises
       THEN /\ parsed' = TRUE
            /\ GesReturn(AnalysisErrorSteps(steps), "RecursionError")
            /\ UNCHANGED <<variable_states, detector, step_num, stmt_i, simvars>>
       ELSE IF code.syntax # Parses
       THEN /\ parsed' = TRUE
            /\ GesReturn(SyntaxErrorSteps(code.syntax), "SyntaxError")
            /\ UNCHANGED <<variable_states, detector, step_num, stmt_i, simvars>>
       ELSE LET vs == CollectStates(code.body, <<>>)
                fg == find_graph(vs)
                alg == detect_algorithm(code, vs, fg.graph_var)
                kind == Dispatch(vs, fg, alg)
            IN /\ parsed' = TRUE
               /\ variable_states' = vs
               /\ step_num' = 0
               /\ detector' = [graph_var |-> fg.graph_var,
                               graph_data |-> fg.graph_data,
                               algorithm |-> alg]
               /\ CASE kind = "error" ->
                         /\ GesReturn(AnalysisErrorSteps(steps), "TypeError")
                         /\ UNCHANGED <<stmt_i, simvars>>
                    [] kind = "simulate" ->
                         /\ graph_data' = fg.graph_data
                         /\ start_arg' = ChooseStart(vs, fg.graph_data)
                         /\ start_node' = ChooseStart(vs, fg.graph_data)
                         /\ algorithm' = alg
                         /\ sim_pc' = "call"
                         /\ ges_pc' = "simulating"
                         /\ UNCHANGED <<steps, exc, stmt_i, nodes, visited,
                                        structure, traversal_steps, current, nbr_i>>
                    [] kind = "generic" ->
                         /\ GesReturn(<<GenericGraphStep(fg.graph_var, fg.graph_data)>>,
                                      "none")
                         /\ UNCHANGED <<stmt_i, simvars>>
                    [] OTHER ->
                         /\ ges_pc' = "walk"
                         /\ stmt_i' = 1
                         /\ UNCHANGED <<steps, exc, simvars>>
    /\ UNCHANGED <<code, language>>

\* Lines 504-519: the simulator returned; wrap its frames and return.
GES_AfterSimulate ==
    /\ UNCHANGED <<vizvars, detvars, procvars, cachevars>>
    /\ ges_pc = "simulating"
    /\ sim_pc = "returned"
    /\ GesReturn(TraversalSteps(traversal_steps, algorithm), "none")
    /\ UNCHANGED <<code, language, variable_states, detector, step_num, stmt_i,
                   parsed, simvars>>

\* Lines 796-810: the simulator raised; the handler builds the error step.
GES_SimulateRaised ==
    /\ UNCHANGED <<vizvars, detvars, procvars, cachevars>>
    /\ ges_pc = "simulating"
    /\ sim_pc = "raised"
    /\ GesReturn(AnalysisErrorSteps(steps), "TypeError")
    /\ UNCHANGED <<code, language, variable_states, detector, step_num, stmt_i,
                   parsed, simvars>>

\* Lines 767-768 (and 796-810): process_statement on the next statement of
\* tree.body.
GES_ProcessStatement ==
    /\ UNCHANGED <<vizvars, detvars, procvars, cachevars>>
    /\ ges_pc = "walk"
    /\ stmt_i <= Len(code.body)
    /\ LET w == ProcessStatement(code.body[stmt_i], LineOf(code.body, stmt_i),
                    [steps |-> steps, vs |-> variable_states,
                     step_num |-> step_num, raised |-> FALSE])
       IN IF w.raised
          THEN /\ GesReturn(AnalysisErrorSteps(steps), "ValueError")
               /\ UNCHANGED <<variable_states, step_num, stmt_i>>
          ELSE /\ steps' = w.steps
               /\ variable_states' = w.vs
               /\ step_num' = w.step_num
               /\ stmt_i' = stmt_i + 1
               /\ UNCHANGED <<ges_pc, exc>>
    /\ UNCHANGED <<code, language, detector, parsed, simvars>>

\* Lines 772-782, 812: the walk is over; an empty result gets the placeholder.
GES_Finish ==
    /\ UNCHANGED <<vizvars, detvars, procvars, cachevars>>
    /\ ges_pc = "walk"
    /\ stmt_i > Len(code.body)
    /\ GesReturn(WalkResult(steps), "none")
    /\ UNCHANGED <<code, language, variable_states, detector, step_num, stmt_i,
                   parsed, simvars>>

GesStep ==
    \/ GES_Enter \/ GES_AfterSimulate \/ GES_SimulateRaised
    \/ GES_ProcessStatement \/ GES_Finish

\* ------------------------------------------------------- POST /visualize
\* tracer.execute(max_steps=100)
TracerMaxSteps == 100

\* ALLOWED_LANGUAGES (main.py line 69)
ALLOWED_LANGUAGES ==
    {"python", "javascript", "java", "cpp", "typescript", "go", "c", "ruby"}

NoResponse == [status |-> 0]

\* Lines 472-474
BadRequest == [status |-> 400, detail |-> "Visualization only supports Python"]

\* Lines 495-501, 519-525, 528-536
VizResponse(success, result, analyzer) ==
    [status |-> 200, success |-> success, steps |-> result,
     total_steps |-> Len(result), analyzer |-> analyzer]

\* Lines 485-494: the static analyzer's steps are used when the first step's
\* visualization type is neither "none" nor "error".
UseStaticUnlessEmpty(static_steps) == static_steps # <<>>
UseStatic(static_steps) ==
    /\ static_steps # <<>>
    /\ static_steps[1].visualization.type \notin {"none", "error"}

\* trace_execution, lines 45-50: the step for a line event.
TracerStep(line) ==
    [line |-> line, code |-> LineCode(line), description |-> "Executing",
     visualization |-> [type |-> "detected"]]

\* execute, lines 391-398
Truncate(result, limit) ==
    IF Len(result) > limit
    THEN Append(SubSeq(result, 1, limit),
                [line |-> 0, code |-> [text |-> "..."],
                 description |-> "Showing first steps only",
                 visualization |-> [type |-> "none", message |-> "Execution continues"]])
    ELSE result

\* Lines 460-482: the language test, then the call of the static analyzer.
Visualize_Enter ==
    /\ UNCHANGED <<detvars, procvars, cachevars>>
    /\ viz_pc = "call"
    /\ IF ~IsPython(language)
       THEN /\ response' = BadRequest
            /\ viz_pc' = "done"
            /\ UNCHANGED <<calls, ges_pc>>
       ELSE /\ calls' = calls \cup {"code_analyzer"}
            /\ ges_pc' = "call"
            /\ viz_pc' = "static"
            /\ UNCHANGED response
    /\ UNCHANGED <<code, language, steps, variable_states, detector, step_num,
                   stmt_i, parsed, exc, tr_steps, step_count, max_steps,
                   simvars>>

\* Lines 484-515: the static analyzer returned; answer with its steps or
\* construct the tracer and call execute.
Visualize_AfterStatic ==
    /\ UNCHANGED <<detvars, procvars, cachevars>>
    /\ viz_pc = "static"
    /\ ges_pc = "done"
    /\ IF UseStatic(steps)
       THEN /\ response' = VizResponse(TRUE, steps, "code_analyzer")
            /\ viz_pc' = "done"
            /\ UNCHANGED <<calls, tr_steps, step_count, max_steps>>
       ELSE /\ calls' = calls \cup {"universal_visualizer"}
            /\ tr_steps' = <<>>
            /\ step_count' = 0
            /\ max_steps' = TracerMaxSteps
            /\ viz_pc' = "tracing"
            /\ UNCHANGED response
    /\ UNCHANGED <<gesvars, simvars>>

\* trace_execution (lines 26-65) on a line event at source line `line`; kw
\* says that the line's text contains 'for', 'while' or 'if'.
Tracer_Line ==
    /\ UNCHANGED <<detvars, procvars, cachevars>>
    /\ viz_pc = "tracing"
    /\ code.syntax = Parses
    /\ step_count < MaxTraceLines
    /\ \E line \in 1..Len(code.body) :
         \E kw \in IF code.body[line].op = "other" THEN BOOLEAN ELSE {FALSE} :
            /\ step_count' = step_count + 1
            /\ tr_steps' = IF step_count + 1 <= 3 /\ ~kw THEN tr_steps
                           ELSE Append(tr_steps, TracerStep(line))
    /\ UNCHANGED <<viz_pc, response, calls, max_steps, gesvars, simvars>>

\* execute, lines 384-401: exec ran to its end; self.steps is cut to
\* max_steps and the marker, and returned with success True.
Tracer_Return ==
    /\ UNCHANGED <<detvars, procvars, cachevars>>
    /\ viz_pc = "tracing"
    /\ code.syntax = Parses
    /\ tr_steps' = Truncate(tr_steps, max_steps)
    /\ viz_pc' = "traced"
    /\ UNCHANGED <<response, calls, step_count, max_steps, gesvars, simvars>>

\* execute, lines 403-409: exec raised (at once when the text does not
\* compile); self.steps is returned as it stands, with success False.
Tracer_Raise ==
    /\ UNCHANGED <<detvars, procvars, cachevars>>
    /\ viz_pc = "tracing"
    /\ viz_pc' = "trace failed"
    /\ UNCHANGED <<response, calls, tr_steps, step_count, max_steps, gesvars,
                   simvars>>

\* Lines 517-536: the response made of the tracer's result.
Visualize_AfterTracer ==
    /\ UNCHANGED <<detvars, procvars, cachevars>>
    /\ viz_pc \in {"traced", "trace failed"}
    /\ "universal_visualizer" \in calls
    /\ response' = IF viz_pc = "traced"
                   THEN VizResponse(TRUE, tr_steps, "universal_visualizer")
                   ELSE VizResponse(FALSE, tr_steps, "universal_visualizer")
                           @@ [partial |-> TRUE]
    /\ viz_pc' = "done"
    /\ UNCHANGED <<calls, tr_steps, step_count, max_steps, gesvars, simvars>>

VizStep ==
    \/ Visualize_Enter \/ Visualize_AfterStatic
    \/ Tracer_Line \/ Tracer_Return \/ Tracer_Raise \/ Visualize_AfterTracer

\* --------------------------------------------------------- response cache
MAX_CACHE_SIZE == 100

\* The cache_key arguments tried: the two oldest and the newest of a full cache, and two new ones.
CacheKeys == {PyStr(1), PyStr(2), PyStr(MAX_CACHE_SIZE),
              PyStr(MAX_CACHE_SIZE + 1), PyStr(MAX_CACHE_SIZE + 2)}
\* The numbers of entries the cache starts with.
CacheFills == {0, MAX_CACHE_SIZE - 1, MAX_CACHE_SIZE}

\* next(iter(response_cache)): the first key in the dict's order.
LastKey(cache) == cache.items[Len(cache.items)].k
FirstKey(cache) == cache.items[1].k

\* response_cache.pop(key)
DictPop(d, key) ==
    LET Keeps(item) == item.k # key IN PyDict(SelectSeq(d.items, Keeps))

\* The time after every insertion made so far.
CacheClock == MAX_CACHE_SIZE + Len(cache_log)

\* The key that entered the cache earliest among those present.
LongestPresent ==
    LET times == {cache_entered[k] : k \in DOMAIN cache_entered}
        earliest == CHOOSE t \in times : \A other \in times : t <= other
    IN CHOOSE k \in DOMAIN cache_entered : cache_entered[k] = earliest

\* cache_response(cache_key, response_data), lines 102-107.
cache_response(cache_key, response_data) ==
    LET full == Len(response_cache.items) >= MAX_CACHE_SIZE
        popped == IF full THEN <<FirstKey(response_cache)>> ELSE <<>>
        after_pop == IF full
                     THEN DictPop(response_cache, FirstKey(response_cache))
                     ELSE response_cache
        present == DOMAIN cache_entered \ Range(popped)
    IN /\ response_cache' = DictSet(after_pop, cache_key, response_data)
       /\ cache_entered' =
             [k \in present \cup {cache_key} |->
                 IF k \in DOMAIN cache_entered /\ <<k>> # popped
                 THEN cache_entered[k]
                 ELSE CacheClock + 1]
       /\ cache_log' = Append(cache_log,
             [key |-> cache_key,
              found |-> Len(response_cache.items),
              longest_present |->
                  IF response_cache.items = <<>> THEN PyNone
                  ELSE LongestPresent,
              removed |-> popped])

\* A cache_response call on its own; the response stored by a call is told
\* apart by the time of the call.
CacheResponse ==
    /\ Len(cache_log) < MaxCacheCalls
    /\ \E cache_key \in CacheKeys :
          cache_response(cache_key, PyInt(CacheClock + 1))
    /\ UNCHANGED <<simvars, gesvars, vizvars, detvars, procvars, requests,
                   ai_configured>>

\* An empty cache, as when the module is loaded (line 90).
CacheIdle ==
    /\ response_cache = PyDict(<<>>)
    /\ cache_entered = <<>>
    /\ cache_log = <<>>
    /\ requests = <<>>
    /\ ai_configured = TRUE

\* ------------------------------------------- POST /explain, /detect-bugs
\* ALLOWED_LEVELS (main.py line 70)
ALLOWED_LEVELS == {"eli5", "beginner", "intermediate", "expert"}

\* level.lower()
LowerLevel(l) ==
    CASE l \in {"beginner", "Beginner"} -> "beginner"
      [] l \in {"expert", "Expert"} -> "expert"
      [] OTHER -> l

\* CodeRequest's validators (lines 110-134): the lowered language and level
\* must be allowed ones; the request then carries them lowered.
ValidRequest(req) ==
    /\ Lower(req.language) \in ALLOWED_LANGUAGES
    /\ LowerLevel(req.level) \in ALLOWED_LEVELS
Validated(req) ==
    [req EXCEPT !.language = Lower(req.language), !.level = LowerLevel(req.level)]

\* generate_cache_key (lines 93-96): the md5 digest of
\* f"{code}|{language}|{level}".  A text is a sequence of pieces, "|" being
\* a piece of its own; a digest is told apart by the text digested.
Md5Hex(text) == PyStr(<<"md5 of">> \o text)
KeyIgnoringLevel(c, l, level) == Md5Hex(c \o <<"|", l>>)
generate_cache_key(c, l, level) == Md5Hex(c \o <<"|", l, "|", level>>)

\* Lines 294 and 379: explain_code passes the request's level, detect_bugs
\* the word "bugs".
KeyOf(req) ==
    generate_cache_key(req.code, req.language,
                       IF req.endpoint = "explain" THEN req.level ELSE "bugs")

\* What the AI service returns for the prompt of a request: the prompt of
\* /explain holds the code, the language and the level, that of /detect-bugs
\* the code and the language.  `body` tells one answer from another: "full",
\* or "empty" for the JSON text {}.
AiResponse(req, body) ==
    [kind |-> req.endpoint, code |-> req.code, language |-> req.language,
     level |-> IF req.endpoint = "explain" THEN req.level ELSE "unused",
     body |-> body]

\* `if cached:` (lines 297, 382)
IsHit(key) ==
    DictHas(response_cache, key) /\ DictGet(response_cache, key, PyNone).body # "empty"

\* Lines 345-351 and 440-444: cache_response is reached only when the awaited
\* call returned and its text was parsed.
CachesAnyReturned(outcome) == outcome \in {"ok", "unparsable"}
ReachesCacheWrite(outcome) == outcome = "ok"

\* The outcomes of the awaited call and of what follows it: "ok", "timeout"
\* (asyncio.TimeoutError, lines 273-279), "unparsable" (json.loads raises,
\* lines 249-255), "error" (the call or response.text raises).
AiOutcomes == {"ok", "timeout", "unparsable", "error"}
ReplyOf(req, outcome, body) ==
    CASE outcome = "ok" -> [status |-> 200, body |-> AiResponse(req, body)]
      [] outcome = "timeout" -> [status |-> 504, detail |-> "AI service timeout"]
      [] outcome = "unparsable" ->
           [status |-> 500, detail |-> "Failed to parse AI response"]
      [] OTHER -> [status |-> 500, detail |-> "Failed"]

\* explain_code lines 281-299, detect_bugs lines 367-384: request i is
\* validated, the configuration is tested and the cache is looked up; on a
\* miss the handler builds the prompt and suspends at the awaited call.
Api_Lookup(i) ==
    /\ requests[i].pc = "new"
    /\ LET req == Validated(requests[i].req)
       IN requests' = [requests EXCEPT ![i] =
             IF ~ValidRequest(requests[i].req)
             THEN [@ EXCEPT !.pc = "done",
                            !.reply = [status |-> 422, detail |-> "validation"]]
             ELSE IF ~ai_configured
             THEN [@ EXCEPT !.pc = "done",
                            !.reply = [status |-> 503,
                                       detail |-> "AI service not configured"]]
             ELSE IF IsHit(KeyOf(req))
             THEN [@ EXCEPT !.pc = "done", !.outcome = "cached",
                            !.reply = [status |-> 200,
                                       body |-> DictGet(response_cache, KeyOf(req),
                                                        PyNone)]]
             ELSE [@ EXCEPT !.pc = "awaiting"]]
    /\ UNCHANGED <<response_cache, cache_entered, cache_log, ai_configured>>
    /\ UNCHANGED <<simvars, gesvars, vizvars, detvars, procvars>>

\* explain_code lines 345-365, detect_bugs lines 440-458: the awaited call
\* of request i ends; a parsed answer is cached and returned, anything else
\* becomes an error reply.
Api_Answer(i) ==
    /\ requests[i].pc = "awaiting"
    /\ \E outcome \in AiOutcomes, body \in {"full", "empty"} :
          LET req == Validated(requests[i].req)
          IN /\ outcome # "ok" => body = "full"
             /\ requests' = [requests EXCEPT ![i] =
                   [@ EXCEPT !.pc = "done", !.outcome = outcome,
                             !.reply = ReplyOf(req, outcome, body)]]
             /\ IF ReachesCacheWrite(outcome)
                THEN cache_response(KeyOf(req), AiResponse(req, body))
                ELSE UNCHANGED <<response_cache, cache_entered, cache_log>>
    /\ UNCHANGED ai_configured
    /\ UNCHANGED <<simvars, gesvars, vizvars, detvars, procvars>>

ApiStep == \E i \in 1..Len(requests) : Api_Lookup(i) \/ Api_Answer(i)

\* ------------------------------------------------------- enumerated inputs
NodeIds == 0..MaxNode

\* Sequences over S of length at most n.
SeqsUpTo(S, n) == UNION {[1..k -> S] : k \in 0..n}

\* Identifier i as a Python value: all numbers ("int"), all strings ("str"),
\* or numbers with the last identifier a string ("mixed").
NodeVal(ty, i) ==
    IF ty = "str" \/ (ty = "mixed" /\ i = MaxNode) THEN PyStr(i) ELSE PyInt(i)

\* The ascending sequence of a set of integers.
RECURSIVE Ascending(_)
Ascending(S) ==
    IF S = {} THEN <<>>
    ELSE LET m == CHOOSE x \in S : \A y \in S : x <= y
         IN <<m>> \o Ascending(S \ {m})

\* The targets of the edges of es that leave u, in edge order.
RECURSIVE Targets(_, _)
Targets(u, es) ==
    IF es = <<>> THEN <<>>
    ELSE (IF es[1][1] = u THEN <<es[1][2]>> ELSE <<>>) \o Targets(u, Tail(es))

\* The dict literal {k1: [...], k2: [...]} with keys in the order of `keys`.
AdjacencyDict(ty, keys, es) ==
    PyDict([i \in 1..Len(keys) |->
              [k |-> NodeVal(ty, keys[i]),
               v |-> PyList([j \in 1..Len(Targets(keys[i], es)) |->
                               NodeVal(ty, Targets(keys[i], es)[j])])]])

EdgeSeqs == SeqsUpTo(NodeIds \X NodeIds, MaxEdges)

\* Adjacency lists with at most MaxEdges neighbour entries in all.  The
\* simulator sorts the nodes and reads neighbours by key, so one key order
\* per graph is enumerated here.
SimGraphs ==
    {AdjacencyDict(ty, Ascending({es[i][1] : i \in 1..Len(es)} \cup extra), es) :
        ty \in {"int", "mixed"}, es \in EdgeSeqs, extra \in SUBSET NodeIds}
    \ {PyDict(<<>>)}

\* graph = {'A': ['B','C'], 'B': ['D'], 'C': [], 'D': []} with 'A'..'D' as
\* PyStr(1)..PyStr(4).
ScenarioA ==
    PyDict(<<[k |-> PyStr(1), v |-> PyList(<<PyStr(2), PyStr(3)>>)],
             [k |-> PyStr(2), v |-> PyList(<<PyStr(4)>>)],
             [k |-> PyStr(3), v |-> PyList(<<>>)],
             [k |-> PyStr(4), v |-> PyList(<<>>)]>>)

\* The literal that evaluates to v.
RECURSIVE Literal(_)
Literal(v) ==
    CASE v.t = "list" -> ListExpr([i \in 1..Len(v.items) |-> Literal(v.items[i])])
      [] v.t = "dict" ->
           DictExpr([i \in 1..Len(v.items) |-> Literal(v.items[i].k)],
                    [i \in 1..Len(v.items) |-> Literal(v.items[i].v)])
      [] OTHER -> Constant(v)

Assign(name, e) == [op |-> "assign", target |-> name, value |-> e]
AppendTo(name, e) == [op |-> "append", obj |-> name, arg |-> e]
PopFrom(name, idx) == [op |-> "pop", obj |-> name, index |-> idx]
OtherStmt == [op |-> "other"]
Program(body, marks) == [syntax |-> Parses, body |-> body, marks |-> marks]

\* stack = []; stack.append(10); stack.append(20); stack.pop()
ScenarioB ==
    Program(<<Assign("stack", ListExpr(<<>>)),
              AppendTo("stack", Constant(PyInt(10))),
              AppendTo("stack", Constant(PyInt(20))),
              PopFrom("stack", "none")>>, {})

\* The module's own test text: stack = []; three appends of 10, 20, 30;
\* top = stack.pop(); second = stack.pop()
StackDemo ==
    Program(<<Assign("stack", ListExpr(<<>>)),
              AppendTo("stack", Constant(PyInt(10))),
              AppendTo("stack", Constant(PyInt(20))),
              AppendTo("stack", Constant(PyInt(30))),
              Assign("top", PopCall("stack")),
              Assign("second", PopCall("stack"))>>, {})

\* Graph literals: adjacency lists with at most MaxLiteralEdges neighbour
\* entries, keys written in ascending or in descending order.
LiteralGraph(ty, up, es, extra) ==
    LET ks == {es[i][1] : i \in 1..Len(es)} \cup extra
    IN AdjacencyDict(ty, IF up THEN Ascending(ks) ELSE Reverse(Ascending(ks)), es)

\* What follows `graph = {...}`: nothing, a queue loop, a stack loop, a start
\* variable (a node or a list) before the queue loop, or a comment only.
QueueLoop == <<Assign("queue", ListExpr(<<>>)), PopFrom("queue", "zero")>>
StackLoop == <<Assign("stack", ListExpr(<<>>)), AppendTo("stack", Constant(PyInt(1))),
               PopFrom("stack", "none")>>
GraphProgramsOf(g) ==
    {Program(<<Assign("graph", Literal(g))>> \o rest, {}) :
        rest \in {<<>>, QueueLoop, StackLoop,
                  <<Assign("start", ListExpr(<<>>))>> \o QueueLoop}
               \cup {<<Assign("start", Constant(n))>> \o QueueLoop :
                        n \in AllNodes(g)}}
    \cup {Program(<<Assign("graph", Literal(g))>> \o QueueLoop, {"indegree"})}
IsGraphProgram(c) ==
    \/ c \in GraphProgramsOf(ScenarioA)
    \/ \E ty \in {"int", "mixed"}, up \in BOOLEAN, extra \in SUBSET NodeIds,
          es \in SeqsUpTo(NodeIds \X NodeIds, MaxLiteralEdges) :
           /\ LiteralGraph(ty, up, es, extra) # PyDict(<<>>)
           /\ c \in GraphProgramsOf(LiteralGraph(ty, up, es, extra))

\* List programs: one list-literal assignment, then appends and pops.
ListItems == {Constant(PyInt(10)), Constant(PyInt(20)),
              ListExpr(<<Constant(PyInt(1)), Constant(PyInt(2))>>),
              ListExpr(<<ListExpr(<<>>), Constant(PyInt(2))>>)}
ListOps(name) ==
    {AppendTo(name, Constant(PyInt(10))), AppendTo(name, Constant(PyInt(20))),
     AppendTo(name, HugeProduct),
     PopFrom(name, "none"), PopFrom(name, "zero"), PopFrom(name, "other"),
     PopFrom("unassigned", "none"), Assign("top", PopCall(name))}
IsListProgram(c) ==
    \E name \in {"stack", "arr"}, items \in SeqsUpTo(ListItems, MaxListLen) :
        \E ops \in SeqsUpTo(ListOps(name), MaxOps) :
            c = Program(<<Assign(name, ListExpr(items))>> \o ops, {})

\* Texts that do not parse, the empty text, and short texts of simple
\* statements.
SimpleStmts ==
    {Assign("x", Constant(PyInt(10))), Assign("x", HugeProduct),
     Assign("d", DictExpr(<<Constant(PyInt(1))>>, <<Constant(PyInt(2))>>)),
     OtherStmt,
     Assign("queue_stack", ListExpr(<<>>)),
     Assign("seen_queue", ListExpr(<<Constant(PyInt(10))>>)),
     Assign("visited", ListExpr(<<>>)),
     Assign("arr", ListExpr(<<Constant(PyInt(10))>>)),
     Assign("q", CallExpr("list")), Assign("d", CallExpr("dict")),
     Assign("s", CallExpr("set")), Assign("x", CallExpr("foo"))}
\* Texts with for/while/if statements: `stack = [10]`, then
\* one statement nested up to MaxDepth deep, then nothing or one more
\* statement.
NestedLeaves ==
    {AppendTo("stack", Constant(PyInt(10))), PopFrom("stack", "none"),
     Assign("x", Constant(PyInt(10)))}
Block(kind, body, orelse) ==
    [op |-> "block", kind |-> kind, body |-> body, orelse |-> orelse]
RECURSIVE NestedStmts(_)
NestedStmts(d) ==
    IF d = 0 THEN NestedLeaves
    ELSE NestedLeaves
         \cup {Block(kind, <<b>>, orelse) :
                  kind \in {"for", "while", "if"}, b \in NestedStmts(d - 1),
                  orelse \in SeqsUpTo(NestedLeaves, 1)}
         \cup {Block(kind, <<a, b>>, <<>>) :
                  kind \in {"for", "while", "if"}, a \in NestedLeaves,
                  b \in NestedLeaves}
NestedPrograms ==
    {Program(<<Assign("stack", ListExpr(<<Constant(PyInt(10))>>)), st>> \o rest, {}) :
        st \in NestedStmts(MaxDepth) \ NestedLeaves,
        rest \in SeqsUpTo(NestedLeaves, 1)}
\* Texts that assign a list twice: arr = [...]; an append or pop; arr = [...];
\* an append or pop.
ReassignOps ==
    {AppendTo("arr", Constant(PyInt(10))), PopFrom("arr", "none"),
     PopFrom("arr", "zero")}
ReassignLiterals ==
    {ListExpr(items) :
        items \in SeqsUpTo({Constant(PyInt(10)), Constant(PyInt(20))}, MaxListLen)}
ReassignPrograms ==
    {Program(<<Assign("arr", first), op1, Assign("arr", second), op2>>, {}) :
        first \in ReassignLiterals, second \in ReassignLiterals,
        op1 \in ReassignOps, op2 \in ReassignOps}
MiscPrograms ==
    {[syntax |-> l, body |-> <<>>, marks |-> {}] : l \in {1, 2, ParseRaises}}
    \cup {Program(body, {}) : body \in SeqsUpTo(SimpleStmts, 2)}

\* ---------------------------------------------------------- specifications
NoCode == [syntax |-> Parses, body |-> <<>>, marks |-> {}]
NoDetector == [graph_var |-> "None", graph_data |-> PyNone, algorithm |-> "None"]

\* generate_execution_steps is not running.
GesIdle ==
    /\ code = NoCode
    /\ language = "python"
    /\ ges_pc = "idle"
    /\ steps = <<>>
    /\ variable_states = <<>>
    /\ detector = NoDetector
    /\ step_num = 0
    /\ stmt_i = 0
    /\ parsed = FALSE
    /\ exc = "none"

\* No /visualize request is being served.
VizIdle ==
    /\ viz_pc = "idle"
    /\ response = NoResponse
    /\ calls = {}
    /\ tr_steps = <<>>
    /\ step_count = 0
    /\ max_steps = TracerMaxSteps

\* No GraphDetector is in use on its own.
DetIdle ==
    /\ det_calls = <<>>
    /\ det_ret = NoReturn

\* simulate_graph_traversal is not running.
SimIdle ==
    /\ graph_data = PyNone
    /\ start_arg = PyNone
    /\ start_node = PyNone
    /\ algorithm = "None"
    /\ sim_pc = "idle"
    /\ nodes = <<>>
    /\ visited = {}
    /\ structure = <<>>
    /\ traversal_steps = <<>>
    /\ current = PyNone
    /\ nbr_i = 0
    /\ hash_order = <<>>
    /\ first_run = <<>>

\* The simulator alone, called on every enumerated graph, start and tag.
InitSim ==
    /\ graph_data \in SimGraphs \cup {ScenarioA}
    /\ start_arg \in AllNodes(graph_data) \cup {PyNone}
    /\ start_node = start_arg
    /\ algorithm \in {"bfs", "dfs"}
    /\ sim_pc = "call"
    /\ nodes = <<>>
    /\ visited = {}
    /\ structure = <<>>
    /\ traversal_steps = <<>>
    /\ current = PyNone
    /\ nbr_i = 0
    /\ hash_order \in HashOrders(graph_data)
    /\ first_run = <<>>
    /\ GesIdle
    /\ VizIdle
    /\ DetIdle
    /\ CacheIdle

NextSim == SimEnter \/ SimRemove \/ SimNeighbor \/ SimComplete \/ SimCallAgain

SpecSim == InitSim /\ [][NextSim]_vars

\* The simulator is a single-threaded function without suspension points: a
\* call that has begun keeps taking its steps.  Whether it is called again is
\* up to the caller.
SimRuns == SimEnter \/ SimRemove \/ SimNeighbor \/ SimComplete
SpecSimFair == InitSim /\ [][SimRuns]_vars /\ WF_vars(SimRuns)

\* generate_execution_steps called on every enumerated text and language.
InitGes ==
    /\ \/ language = "python" /\ IsGraphProgram(code)
       \/ language = "python" /\ IsListProgram(code)
       \/ language = "python" /\ code = StackDemo
       \/ language = "python" /\ code \in NestedPrograms
       \/ language = "python" /\ code \in ReassignPrograms
       \/ language = "python" /\ code \in MiscPrograms
       \/ language \in {"Python", "javascript", "Java"} /\ code \in MiscPrograms
    /\ ges_pc = "call"
    /\ steps = <<>>
    /\ variable_states = <<>>
    /\ detector = NoDetector
    /\ step_num = 0
    /\ stmt_i = 0
    /\ parsed = FALSE
    /\ exc = "none"
    /\ SimIdle
    /\ VizIdle
    /\ DetIdle
    /\ CacheIdle

Next == GesStep \/ SimStep

Spec == InitGes /\ [][Next]_vars

\* graph = {1: [], 'b': []}
MixedGraph ==
    PyDict(<<[k |-> PyInt(1), v |-> PyList(<<>>)],
             [k |-> PyStr(2), v |-> PyList(<<>>)]>>)

\* Requests to POST /visualize (validated: the text is not blank, the language
\* is lower case and allowed), and direct calls of generate_execution_steps.
VizPrograms ==
    (MiscPrograms \ {NoCode})
    \cup {Program(<<OtherStmt, OtherStmt, OtherStmt>>, {}), ScenarioB}
    \cup GraphProgramsOf(ScenarioA)
    \cup {Program(<<Assign("graph", Literal(MixedGraph))>> \o StackLoop, {})}
InitViz ==
    /\ \/ /\ viz_pc = "call"
          /\ ges_pc = "idle"
          /\ language \in ALLOWED_LANGUAGES
          /\ code \in VizPrograms
       \/ /\ viz_pc = "idle"
          /\ ges_pc = "call"
          /\ language \in {"python", "Python", "javascript", "Java"}
          /\ code \in MiscPrograms
    /\ steps = <<>>
    /\ variable_states = <<>>
    /\ detector = NoDetector
    /\ step_num = 0
    /\ stmt_i = 0
    /\ parsed = FALSE
    /\ exc = "none"
    /\ response = NoResponse
    /\ calls = {}
    /\ tr_steps = <<>>
    /\ step_count = 0
    /\ max_steps = TracerMaxSteps
    /\ SimIdle
    /\ DetIdle
    /\ CacheIdle

NextViz == VizStep \/ GesStep \/ SimStep

SpecViz == InitViz /\ [][NextViz]_vars

\* UniversalCodeTracer(code).execute(max_steps) alone, on the enumerated
\* texts and small max_steps.
InitTracer ==
    /\ code \in VizPrograms
    /\ max_steps \in 0..MaxStepsArg
    /\ language = "python"
    /\ ges_pc = "idle"
    /\ steps = <<>>
    /\ variable_states = <<>>
    /\ detector = NoDetector
    /\ step_num = 0
    /\ stmt_i = 0
    /\ parsed = FALSE
    /\ exc = "none"
    /\ viz_pc = "tracing"
    /\ response = NoResponse
    /\ calls = {}
    /\ tr_steps = <<>>
    /\ step_count = 0
    /\ SimIdle
    /\ DetIdle
    /\ CacheIdle

NextTracer == Tracer_Line \/ Tracer_Return \/ Tracer_Raise

SpecTracer == InitTracer /\ [][NextTracer]_vars

\* The values assigned in a text handed to a detector: an adjacency list
\* {1: [2]}, a dict that is none {1: 2}, an edge list [[1, 2]], a list of
\* pairs with an unhashable endpoint [[[], 2]], a list that is neither [10].
DetValues ==
    {DictExpr(<<Constant(PyInt(1))>>, <<ListExpr(<<Constant(PyInt(2))>>)>>),
     DictExpr(<<Constant(PyInt(1))>>, <<Constant(PyInt(2))>>),
     ListExpr(<<ListExpr(<<Constant(PyInt(1)), Constant(PyInt(2))>>)>>),
     ListExpr(<<ListExpr(<<ListExpr(<<>>), Constant(PyInt(2))>>)>>),
     ListExpr(<<Constant(PyInt(10))>>)}
VarName(i) == "v" \o ToString(i)

\* The keywords the detector looks for.
DetMarks ==
    {"heapq", "dist", "indegree", "parent", "find", "mst",
     ".pop(0)", ".pop()", ".append(",
     "call of a defined function in its own body",
     "call of a defined function from outside its body"}
\* A text that calls a function it defines contains "def ".
WithDef(marks) ==
    IF marks \cap {"call of a defined function in its own body",
                   "call of a defined function from outside its body"} # {}
    THEN marks \cup {"def "} ELSE marks

\* An edge [u, v] or [u, v, w] as a literal.
EdgeExpr(u, v, w) ==
    ListExpr(<<Constant(PyInt(u)), Constant(PyInt(v))>>
             \o IF w = 0 THEN <<>> ELSE <<Constant(PyInt(w))>>)

\* A fresh GraphDetector(code, variable_states) for every enumerated text:
\* up to MaxVars assignments with up to MaxMarks keywords, or one edge list
\* of up to MaxEdges edges, weighted or not.
InitDet ==
    /\ \/ \E vals \in SeqsUpTo(DetValues, MaxVars) :
          \E marks \in SUBSET DetMarks :
             /\ Cardinality(marks) <= MaxMarks
             /\ code = Program([i \in 1..Len(vals) |-> Assign(VarName(i), vals[i])],
                               WithDef(marks))
       \/ \E es \in SeqsUpTo(NodeIds \X NodeIds \X {0, 5}, MaxEdges) :
             code = Program(<<Assign("edges",
                        ListExpr([i \in 1..Len(es) |->
                                    EdgeExpr(es[i][1], es[i][2], es[i][3])]))>>, {})
    /\ language = "python"
    /\ variable_states = CollectStates(code.body, <<>>)
    /\ detector = NoDetector
    /\ ges_pc = "detector"
    /\ steps = <<>>
    /\ step_num = 0
    /\ stmt_i = 0
    /\ parsed = TRUE
    /\ exc = "none"
    /\ SimIdle
    /\ VizIdle
    /\ DetIdle
    /\ CacheIdle

NextDet == Detector_find_graph \/ Detector_detect_algorithm

SpecDet == InitDet /\ [][NextDet]_vars

\* The cache after `n` responses with different keys have been stored: the
\* keys are numbered in the order they entered.
FilledCache(n) == PyDict([i \in 1..n |-> [k |-> PyStr(i), v |-> PyInt(i)]])

\* cache_response called on its own, on a cache that is empty, one short of
\* full, or full.
InitCache ==
    /\ \E n \in CacheFills :
          /\ response_cache = FilledCache(n)
          /\ cache_entered = [k \in {PyStr(i) : i \in 1..n} |-> k.v]
    /\ cache_log = <<>>
    /\ requests = <<>>
    /\ ai_configured = TRUE
    /\ SimIdle
    /\ GesIdle
    /\ VizIdle
    /\ det_calls = <<>>
    /\ det_ret = NoReturn

NextCache == CacheResponse

SpecCache == InitCache /\ [][NextCache]_vars

\* The requests tried: /explain and /detect-bugs on the same code and
\* language, levels in other case and the level "bugs", a code that ends like
\* a key.
Req(endpoint, c, l, level) ==
    [endpoint |-> endpoint, code |-> c, language |-> l, level |-> level]
TriedRequests ==
    {Req("explain", <<"x">>, "python", "beginner"),
     Req("explain", <<"x">>, "Python", "Expert"),
     Req("explain", <<"x">>, "python", "bugs"),
     Req("explain", <<"x", "|", "python">>, "java", "beginner"),
     Req("detect-bugs", <<"x">>, "Python", "beginner")}

\* The request that filled place i of the cache before.
PastRequest(i) == Req("explain", <<"past", ToString(i)>>, "python", "beginner")
ApiFilledCache(n) ==
    PyDict([i \in 1..n |->
              [k |-> KeyOf(PastRequest(i)), v |-> AiResponse(PastRequest(i), "full")]])

\* Up to MaxRequests requests arrive together, the cache one short of full
\* or full.
InitApi ==
    /\ \E n \in {MAX_CACHE_SIZE - 1, MAX_CACHE_SIZE} :
          /\ response_cache = ApiFilledCache(n)
          /\ cache_entered = [k \in {KeyOf(PastRequest(i)) : i \in 1..n} |->
                                 CHOOSE i \in 1..n : KeyOf(PastRequest(i)) = k]
    /\ cache_log = <<>>
    /\ \E rs \in [1..MaxRequests -> TriedRequests] :
          requests = [i \in 1..MaxRequests |->
                        [req |-> rs[i], pc |-> "new", outcome |-> "none",
                         reply |-> NoResponse]]
    /\ ai_configured \in BOOLEAN
    /\ SimIdle
    /\ GesIdle
    /\ VizIdle
    /\ DetIdle

NextApi == ApiStep

SpecApi == InitApi /\ [][NextApi]_vars

\* ========================================================== properties
\* ------------------------------------------------ reading the frames
IsRemoval(f) == f.data_structure.operation \in {"dequeue", "pop"}
IsInsertion(f) == f.data_structure.operation \in {"enqueue", "push"}

\* The removed_value of the removal frames, in frame order.
RECURSIVE RemovedOrder(_)
RemovedOrder(fs) ==
    IF fs = <<>> THEN <<>>
    ELSE (IF IsRemoval(fs[1]) THEN <<fs[1].data_structure.removed_value>>
          ELSE <<>>) \o RemovedOrder(Tail(fs))

\* The node each insertion frame appended (the last item of its data), in
\* frame order; the initial frame inserts the start node.
RECURSIVE InsertedOrder(_)
InsertedOrder(fs) ==
    IF fs = <<>> THEN <<>>
    ELSE (IF IsInsertion(fs[1])
          THEN <<fs[1].data_structure.data[Len(fs[1].data_structure.data)]>>
          ELSE <<>>) \o InsertedOrder(Tail(fs))

IsPrefix(a, b) == Len(a) <= Len(b) /\ SubSeq(b, 1, Len(a)) = a

Count(x, seq) == Cardinality({i \in 1..Len(seq) : seq[i] = x})

\* The nodes reachable from s along the adjacency list, s included.
Successors(edges, S) ==
    UNION {{NeighborNode(nb) : nb \in Range(DictGet(edges, x, PyList(<<>>)).items)} :
              x \in S}
RECURSIVE ReachFrom(_, _)
ReachFrom(edges, S) ==
    IF Successors(edges, S) \subseteq S THEN S
    ELSE ReachFrom(edges, S \cup Successors(edges, S))
Reachable(edges, s) == ReachFrom(edges, {s})

\* C2 (as stated): for every adjacency list G and every start node s of G,
\* whatever its identifier, the breadth-first simulation emits exactly one
\* removal frame for each node reachable from s and none for any other node,
\* and its final frame has an empty frontier and the reachable set as its
\* visited set.
C2_BfsVisitsReachableOnce ==
    (sim_pc = "returned" /\ algorithm = "bfs"
        /\ start_arg \in AllNodes(graph_data))
    => /\ traversal_steps # <<>>
       /\ \A n \in AllNodes(graph_data) :
            Count(n, RemovedOrder(traversal_steps))
              = IF n \in Reachable(graph_data, start_node) THEN 1 ELSE 0
       /\ traversal_steps[Len(traversal_steps)].data_structure.data = <<>>
       /\ Range(traversal_steps[Len(traversal_steps)].graph.visited)
              = Reachable(graph_data, start_node)

\* C3: the frontier discipline holds across the whole run.  Breadth-first:
\* the nodes are removed in the order they were appended (the removals are
\* a prefix of the insertions, and the frontier is what remains of them).
\* Depth-first: every removal takes the last item of the frontier as the
\* preceding frame shows it, and leaves the items before it.
C3_FrontierDiscipline ==
    sim_pc \in {"loop", "neighbors", "returned"} =>
      /\ algorithm = "bfs" =>
           /\ IsPrefix(RemovedOrder(traversal_steps), InsertedOrder(traversal_steps))
           /\ sim_pc # "returned" =>
                InsertedOrder(traversal_steps)
                    = RemovedOrder(traversal_steps) \o structure
      /\ algorithm = "dfs" =>
           \A i \in 2..Len(traversal_steps) :
              IsRemoval(traversal_steps[i]) =>
                LET before == traversal_steps[i - 1].data_structure.data
                    f == traversal_steps[i].data_structure
                IN /\ before # <<>>
                   /\ f.removed_value = before[Len(before)]
                   /\ f.data = SubSeq(before, 1, Len(before) - 1)

\* A breadth-first run that held two nodes in the frontier and removed three.
C3_Witness ==
    /\ sim_pc = "returned"
    /\ algorithm = "bfs"
    /\ Len(RemovedOrder(traversal_steps)) >= 3
    /\ \E i \in 1..Len(traversal_steps) :
          Len(traversal_steps[i].data_structure.data) >= 2

\* The level order from s: the start, then level by level, each level the
\* not yet seen neighbours of the previous level's nodes, taken node by node
\* and in each node's adjacency order.
RECURSIVE NextLevel(_, _, _, _)
NextLevel(edges, front, seen, acc) ==
    IF front = <<>> THEN acc
    ELSE LET nbrs == DictGet(edges, front[1], PyList(<<>>)).items
             fresh == SelectSeq([j \in 1..Len(nbrs) |-> NeighborNode(nbrs[j])],
                                LAMBDA n : n \notin seen)
         IN NextLevel(edges, Tail(front), seen, acc \o fresh)
\* Keeps the first occurrence of each item.
RECURSIVE Dedup(_)
Dedup(q) ==
    IF q = <<>> THEN <<>>
    ELSE LET r == Dedup(SubSeq(q, 1, Len(q) - 1))
         IN IF q[Len(q)] \in Range(r) THEN r ELSE Append(r, q[Len(q)])
RECURSIVE LevelOrderFrom(_, _, _)
LevelOrderFrom(edges, front, seen) ==
    IF front = <<>> THEN <<>>
    ELSE LET nxt == Dedup(NextLevel(edges, front, seen, <<>>))
         IN front \o LevelOrderFrom(edges, nxt, seen \cup Range(nxt))
LevelOrder(edges, s) == LevelOrderFrom(edges, <<s>>, {s})

Returned == ges_pc = "done"

\* C1: for every source text and every language value,
\* generate_execution_steps returns a sequence of at least one step.
C1_NeverEmpty == Returned => Len(steps) >= 1

C1_Witness ==
    /\ Returned
    /\ language = "python"
    /\ code = NoCode
    /\ steps = <<PlaceholderStep>>

\* C5: a Python text that fails to parse with a syntax error yields exactly
\* one step, of visualization type "error", whose line is the syntax
\* error's line number.
C5_SyntaxErrorStep ==
    (Returned /\ Lower(language) = "python" /\ code.syntax >= 1) =>
        /\ Len(steps) = 1
        /\ steps[1].visualization.type = "error"
        /\ steps[1].line = code.syntax

C5_Witness ==
    /\ Returned
    /\ language = "python"
    /\ code.syntax = 2
    /\ Len(steps) = 1
    /\ steps[1].line = 2

\* What Python itself makes of a literal expression.
RECURSIVE ValueOf(_)
ValueOf(e) ==
    CASE e.n = "Constant" -> e.value
      [] e.n = "List" -> PyList([i \in 1..Len(e.elts) |-> ValueOf(e.elts[i])])
      [] e.n = "Dict" ->
           PyDict([i \in 1..Len(e.keys) |->
                     [k |-> ValueOf(e.keys[i]), v |-> ValueOf(e.values[i])]])
      [] OTHER -> PyHuge

\* The contents of the list after statement i of body, by Python's list
\* semantics: statement 1 assigns the literal, append adds at the back,
\* pop(0) removes the first item and pop() the last.
RECURSIVE ContentsAfter(_, _)
ContentsAfter(body, i) ==
    IF i = 1
    THEN [k \in 1..Len(body[1].value.elts) |-> ValueOf(body[1].value.elts[k])]
    ELSE LET before == ContentsAfter(body, i - 1)
         IN CASE body[i].op = "append" -> Append(before, ValueOf(body[i].arg))
              [] body[i].op = "pop" /\ before = <<>> -> <<>>
              [] body[i].op = "pop" /\ before # <<>> /\ body[i].index = "zero" ->
                   Tail(before)
              [] OTHER -> SubSeq(before, 1, Len(before) - 1)
RemovedAt(body, i) ==
    LET before == ContentsAfter(body, i - 1)
    IN IF body[i].index = "zero" THEN before[1] ELSE before[Len(before)]

\* One list-literal assignment, then append(x), pop() and pop(0) statements
\* on that variable, every pop applied to a non-empty list.
IsListRun(body) ==
    /\ Len(body) >= 1
    /\ body[1].op = "assign"
    /\ body[1].value.n = "List"
    /\ \A i \in 2..Len(body) :
          /\ body[i].op \in {"append", "pop"}
          /\ body[i].obj = body[1].target
          /\ body[i].op = "pop" =>
                /\ body[i].index \in {"none", "zero"}
                /\ ContentsAfter(body, i - 1) # <<>>

ShowsContents(body, i) ==
    /\ "data" \in DOMAIN steps[i].visualization
    /\ steps[i].visualization.data = ContentsAfter(body, i)
    /\ body[i].op = "pop" =>
          /\ "removed_value" \in DOMAIN steps[i].visualization
          /\ steps[i].visualization.removed_value = RemovedAt(body, i)

\* C6: for one list-literal assignment followed by append(x), pop() and
\* pop(0) statements on the variable, the step of each statement shows the
\* contents the list has after it and each pop step's removed_value is the
\* element removed; Scenario B gives four stack-typed steps.
C6_ListStepsShowContents ==
    (Returned /\ language = "python" /\ code.syntax = Parses
        /\ IsListRun(code.body)) =>
        /\ Len(steps) = Len(code.body)
        /\ \A i \in 1..Len(code.body) : ShowsContents(code.body, i)
        /\ code = ScenarioB =>
              \A i \in 1..4 : steps[i].visualization.type = "stack"

\* C8: generate_execution_steps never raises for Python input: an
\* exception other than the SyntaxError of the parse, raised anywhere in the
\* analysis, ends in the return of exactly one step, of visualization type
\* "error", without the steps accumulated before it.
C8_ExceptionGivesOneErrorStep ==
    /\ ges_pc \in {"idle", "call", "simulating", "walk", "done"}
    /\ (Returned /\ exc \notin {"none", "SyntaxError"}) =>
          /\ Len(steps) = 1
          /\ steps[1].visualization.type = "error"

\* The walk had emitted steps when a statement raised.
C8_Witness ==
    /\ Returned
    /\ exc = "ValueError"
    /\ step_num >= 1
    /\ Len(steps) = 1
    /\ steps[1].visualization.type = "error"

\* C10: when the detector returns "bfs" or "dfs" and a non-empty graph was
\* extracted, the result is exactly one graph_with_ds step per simulator
\* frame, in frame order, and nothing else.
C10_TraversalStepsPerFrame ==
    (Returned /\ detector.algorithm \in {"bfs", "dfs"}
        /\ Truthy(detector.graph_data)) =>
        /\ sim_pc = "returned"
        /\ Len(steps) = Len(traversal_steps)
        /\ \A i \in 1..Len(steps) :
              /\ steps[i].visualization.type = "graph_with_ds"
              /\ steps[i].visualization.graph = traversal_steps[i].graph
              /\ steps[i].visualization.data_structure
                    = traversal_steps[i].data_structure

\* ---------------------------------------------------------- POST /visualize
Responded == viz_pc = "done"

StepFields == {"step", "line", "code", "description", "visualization"}

\* C7: every response of /visualize to a Python request carries a non-empty
\* steps sequence whose steps each have the fields step, line, code,
\* description and visualization, a success flag, and total_steps equal to
\* the number of steps.
C7_ResponseShape ==
    (Responded /\ IsPython(language)) =>
        /\ {"success", "steps", "total_steps"} \subseteq DOMAIN response
        /\ response.steps # <<>>
        /\ \A i \in 1..Len(response.steps) :
              StepFields \subseteq DOMAIN response.steps[i]
        /\ response.total_steps = Len(response.steps)

\* C9: a non-Python language is never analyzed: generate_execution_steps
\* returns exactly one step of visualization type "none" without parsing,
\* and /visualize answers 400 without invoking the static analyzer or the
\* tracer.
C9_NonPythonNotAnalyzed ==
    /\ (Returned /\ Lower(language) # "python") =>
          /\ Len(steps) = 1
          /\ steps[1].visualization.type = "none"
          /\ ~parsed
    /\ (Responded /\ Lower(language) # "python") =>
          /\ response.status = 400
          /\ calls = {}
          /\ ges_pc = "idle"
          /\ ~parsed
          /\ tr_steps = <<>> /\ step_count = 0

C9_Witness ==
    /\ Responded
    /\ language = "java"
    /\ response = BadRequest
    /\ calls = {}

\* ------------------------------------------------------ generic graph step
\* The result is the single step of the generic-graph path for the graph
\* the detector extracted.
IsOneGraphStep ==
    /\ Len(steps) = 1
    /\ steps[1].visualization.type = "graph"
    /\ steps[1].visualization.name = detector.graph_var
    /\ steps[1].visualization.nodes = DictKeys(detector.graph_data)
    /\ steps[1].visualization.edges = detector.graph_data

LastCall == IF det_calls = <<>> THEN "none" ELSE det_calls[Len(det_calls)]

\* The closed set of tags, in priority order, each with the condition its
\* rule puts on the text and the variables.
InText(m) == m \in code.marks
HasListVariable ==
    \E i \in 1..Len(code.body) :
        code.body[i].op = "assign" /\ code.body[i].value.n = "List"
TagRules ==
    <<[tag |-> "dijkstra", matches |-> InText("heapq") /\ InText("dist")],
      [tag |-> "topological_sort", matches |-> InText("indegree")],
      [tag |-> "union_find", matches |-> InText("parent") /\ InText("find")],
      [tag |-> "prim", matches |-> InText("mst") /\ InText("heapq")],
      [tag |-> "bfs", matches |-> InText(".pop(0)") /\ HasListVariable],
      [tag |-> "dfs", matches |-> InText(".pop()") /\ InText(".append(")],
      [tag |-> "dfs_recursive",
       matches |-> InText("call of a defined function in its own body")
                      \/ InText("call of a defined function from outside its body")],
      [tag |-> "generic", matches |-> TRUE]>>
Matching == {i \in 1..Len(TagRules) : TagRules[i].matches}
EarliestTag == TagRules[CHOOSE i \in Matching : \A j \in Matching : i <= j].tag

\* C12 as stated: every return of detect_algorithm is the tag of the
\* earliest matching rule.
C12_AlwaysEarliestTag ==
    LastCall = "detect_algorithm" => det_ret.value = EarliestTag

\* C12: once find_graph has found a graph variable, detect_algorithm
\* returns the tag of the earliest matching rule of the closed set, generic
\* when no other rule matches; while no graph variable is set it returns None.
C12_EarliestTagWhenGraphFound ==
    LastCall = "detect_algorithm" =>
        IF detector.graph_var = "None"
        THEN det_ret.value = "None"
        ELSE /\ det_ret.value = EarliestTag
             /\ detector.algorithm = EarliestTag

\* A text that matches the breadth-first, depth-first and generic rules.
C12_Witness ==
    /\ LastCall = "detect_algorithm"
    /\ detector.graph_var # "None"
    /\ {5, 6, 8} \subseteq Matching
    /\ det_ret.value = "bfs"

\* A non-empty mapping with every value a sequence.
IsMappingToSequences(v) ==
    /\ v.t = "dict"
    /\ v.items # <<>>
    /\ \A i \in 1..Len(v.items) : v.items[i].v.t = "list"
\* A non-empty sequence of pair-like items.
IsSequenceOfPairs(v) ==
    /\ v.t = "list"
    /\ v.items # <<>>
    /\ \A i \in 1..Len(v.items) :
          v.items[i].t = "list" /\ Len(v.items[i].items) >= 2

\* The positions in the text of the variables of each shape (every
\* statement of the text is an assignment to a name of its own).
AdjacencyVars ==
    {i \in 1..Len(code.body) : IsMappingToSequences(ValueOf(code.body[i].value))}
EdgeListVars ==
    {i \in 1..Len(code.body) : IsSequenceOfPairs(ValueOf(code.body[i].value))}
First(S) == CHOOSE i \in S : \A j \in S : i <= j

\* C13: find_graph returns the first variable of adjacency-list shape, with
\* its value; only when there is none, the first variable holding a
\* non-empty sequence of pair-like items, converted to an adjacency list;
\* and no graph when neither shape exists.
C13_FindGraphOrder ==
    (LastCall = "find_graph" /\ ~det_ret.raised) =>
        LET adjacency == AdjacencyVars
            edge_lists == EdgeListVars
        IN IF adjacency # {}
           THEN det_ret.value =
                   <<code.body[First(adjacency)].target,
                     ValueOf(code.body[First(adjacency)].value)>>
           ELSE IF edge_lists # {}
           THEN /\ det_ret.value[1] = code.body[First(edge_lists)].target
                /\ det_ret.value[2] = edge_list_to_adjacency_list(
                                         ValueOf(code.body[First(edge_lists)].value))
           ELSE det_ret.value = <<"None", PyNone>>

\* An edge list assigned before an adjacency list: the adjacency list wins.
C13_Witness ==
    /\ LastCall = "find_graph"
    /\ Len(code.body) = 2
    /\ EdgeListVars = {1}
    /\ AdjacencyVars = {2}
    /\ ~det_ret.raised
    /\ det_ret.value[1] = "v2"

\* ------------------------------------------------------ edge-list conversion
\* The edge list that find_graph converts: the value of the first variable
\* holding a sequence of pairs, when no variable has adjacency-list shape.
ConvertsEdgeList ==
    /\ LastCall = "find_graph"
    /\ ~det_ret.raised
    /\ AdjacencyVars = {}
    /\ EdgeListVars # {}
TheEdges == ValueOf(code.body[First(EdgeListVars)].value).items
Endpoints ==
    LET es == TheEdges
    IN UNION {{es[i].items[1], es[i].items[2]} : i \in 1..Len(es)}

\* What the edges leaving u add to u's neighbour list, in edge-list order:
\* the destination, or the pair (destination, weight).
RECURSIVE Added(_, _)
Added(u, es) ==
    IF es = <<>> THEN <<>>
    ELSE (IF es[1].items[1] # u THEN <<>>
          ELSE IF Len(es[1].items) > 2
          THEN <<[t |-> "tuple", items |-> <<es[1].items[2], es[1].items[3]>>]>>
          ELSE <<es[1].items[2]>>)
         \o Added(u, Tail(es))

\* C14: the adjacency list made from an edge list has exactly the edge
\* endpoints as keys, each once, and the neighbour list of u is what the
\* edges leaving u add, in edge-list order, self-loops and duplicates kept.
C14_EdgeListConversion ==
    ConvertsEdgeList =>
        LET adj == det_ret.value[2].items
            es == TheEdges
            ends == Endpoints
        IN /\ {adj[i].k : i \in 1..Len(adj)} = ends
           /\ Len(adj) = Cardinality(ends)
           /\ \A i \in 1..Len(adj) : adj[i].v = PyList(Added(adj[i].k, es))

\* A weighted self-loop given twice, and a destination-only node.
C14_Witness ==
    /\ ConvertsEdgeList
    /\ Len(TheEdges) = 2
    /\ \E i \in 1..2 : /\ TheEdges[i].items[1] = TheEdges[i].items[2]
                       /\ Len(TheEdges[i].items) = 3
    /\ \E i \in 1..Len(det_ret.value[2].items) :
          det_ret.value[2].items[i].v = PyList(<<>>)

\* ------------------------------------------------------------ graph payloads
\* Every neighbour named in the adjacency list `edges` is in the node list.
NeighboursListed(nodelist, edges) ==
    \A i \in 1..Len(edges.items) :
        \A j \in 1..Len(edges.items[i].v.items) :
            NeighborNode(edges.items[i].v.items[j]) \in Range(nodelist)

\* The same for the frames of a traversal.
FramesListNeighbours ==
    \A i \in 1..Len(steps) :
        steps[i].visualization.type = "graph_with_ds" =>
            NeighboursListed(steps[i].visualization.graph.nodes,
                             steps[i].visualization.graph.edges)

\* C15: in every graph payload returned (each traversal frame, the generic
\* graph step) every node that is a neighbour in the payload's edges is in
\* the payload's node list.
C15_NeighboursInNodeList ==
    Returned =>
        /\ FramesListNeighbours
        /\ \A i \in 1..Len(steps) :
              steps[i].visualization.type = "graph" =>
                  NeighboursListed(steps[i].visualization.nodes,
                                   steps[i].visualization.edges)

\* C16: two runs of simulate_graph_traversal on the same adjacency list, start
\* node and algorithm tag return the same frames, frame by frame, including
\* the order of the nodes listed in each frame's visited field.
C16_SameArgumentsSameFrames ==
    (sim_pc = "returned" /\ first_run # <<>>) =>
        traversal_steps = first_run[1]

\* The nodes and the edges (neighbour entries) of an adjacency list.
NodeCount(edges) == Cardinality(AllNodes(edges))
RECURSIVE SumOfLengths(_)
SumOfLengths(lists) ==
    IF lists = <<>> THEN 0
    ELSE Len(lists[1].items) + SumOfLengths(Tail(lists))
EdgeCount(edges) == SumOfLengths(DictValues(edges))

SimEnded == sim_pc \in {"returned", "raised"}
VisitedAtMostOnce ==
    \A n \in AllNodes(graph_data) : Count(n, RemovedOrder(traversal_steps)) <= 1

\* C17 (as stated): every call of simulate_graph_traversal ends, no node is
\* marked visited (removed) more than once, and the frames emitted number at
\* most node count plus edge count.
C17_EndsWithinNodesPlusEdges ==
    /\ <>SimEnded
    /\ []((sim_pc # "idle" /\ ~AddRaises(graph_data)) =>
            /\ VisitedAtMostOnce
            /\ Len(traversal_steps)
                  <= NodeCount(graph_data) + EdgeCount(graph_data))

\* C17: every call of simulate_graph_traversal ends, no node is marked
\* visited (removed) more than once, the removal and insertion frames number
\* at most node count plus edge count, and with the initial and the final
\* frame the frames emitted number at most node count plus edge count plus 2.
C17_EndsWithinNodesPlusEdgesPlusTwo ==
    /\ <>SimEnded
    /\ []((sim_pc # "idle" /\ ~AddRaises(graph_data)) =>
            /\ VisitedAtMostOnce
            /\ Len(RemovedOrder(traversal_steps))
                  + Len(InsertedOrder(traversal_steps)) - 1
                  <= NodeCount(graph_data) + EdgeCount(graph_data)
            /\ Len(traversal_steps)
                  <= NodeCount(graph_data) + EdgeCount(graph_data) + 2)

\* A run on a graph with a cycle has ended after removing more than one node.
C17_Witness ==
    /\ sim_pc = "returned"
    /\ Len(RemovedOrder(traversal_steps)) > 1
    /\ start_node \in ReachFrom(graph_data,
                                 Successors(graph_data, {start_node}))

\* ---------------------------------------------------------- response cache
CacheCall(i) == cache_log[i]

\* C18: the response cache never holds more than MAX_CACHE_SIZE entries, and a
\* cache_response call that finds the cache at capacity removes exactly one
\* entry, the one that entered the cache earliest among those present.
C18_CacheBoundedOldestFirst ==
    /\ Len(response_cache.items) <= MAX_CACHE_SIZE
    /\ \A i \in 1..Len(cache_log) :
          CacheCall(i).found >= MAX_CACHE_SIZE =>
              CacheCall(i).removed = <<CacheCall(i).longest_present>>

\* A call found the cache full, and a later call with a key stored before
\* found it full again.
C18_Witness ==
    \E i, j \in 1..Len(cache_log) :
        /\ i < j
        /\ CacheCall(i).found = MAX_CACHE_SIZE
        /\ CacheCall(j).found = MAX_CACHE_SIZE
        /\ CacheCall(j).key = CacheCall(i).key

InWalk ==
    /\ language = "python"
    /\ code.syntax = Parses
    /\ exc = "none"
    /\ \/ ges_pc = "walk"
       \/ Returned /\ stmt_i > Len(code.body)

StepsOfLine(i) == {k \in 1..Len(steps) : steps[k].line = i}
StepOfLine(i) == steps[CHOOSE k \in StepsOfLine(i) : TRUE]

\* The visualization type of a list by the role its name has: stack before
\* queue before visited.
ListRole(name) ==
    CASE name \in {"stack", "queue_stack", "s", "st", "stk"} -> "stack"
      [] name \in {"queue", "seen_queue", "q", "qu"} -> "queue"
      [] name \in {"visited", "seen"} -> "visited"
      [] OTHER -> "array"

IsDictLiteral(e) == e.n = "Dict"
IsListLiteral(e) == e.n = "List"
IsDictValue(e) == e.n = "Dict" \/ (e.n = "Call" /\ e.func = "dict")
IsListValue(e) == e.n = "List" \/ (e.n = "Call" /\ e.func = "list")

\* The text of str(x) for the integers.
TextOf(s) == IF s.of.t = "int" THEN ToString(s.of.v) ELSE "other"

IsVariableStep(st, step) ==
    /\ step.visualization.type = "variable"
    /\ step.visualization.name = st.target
    /\ step.visualization.value = StrOf(safe_eval_value(st.value))
    /\ step.visualization.var_type = detect_type(st.value)
    /\ st = Assign("x", Constant(PyInt(10))) =>
          /\ step.visualization.name = "x"
          /\ TextOf(step.visualization.value) = "10"
          /\ step.visualization.var_type = "int"

IsPopOf(st, name) ==
    \/ st.op = "pop" /\ st.obj = name /\ st.index = "none"
    \/ st.op = "assign" /\ st.value.n = "MethodCall" /\ st.value.obj = name
IsAppendTo(st, name) == st.op = "append" /\ st.obj = name

\* The contents of the stack after statement i, by Python's list semantics.
RECURSIVE StackAfter(_, _)
StackAfter(body, i) ==
    IF i = 1
    THEN [k \in 1..Len(body[1].value.elts) |-> ValueOf(body[1].value.elts[k])]
    ELSE LET before == StackAfter(body, i - 1)
         IN IF body[i].op = "append" THEN Append(before, ValueOf(body[i].arg))
            ELSE IF before = <<>> THEN <<>>
            ELSE SubSeq(before, 1, Len(before) - 1)

\* A list literal assigned to a stack name, then appends and pops on it, every
\* pop applied to a non-empty stack.
IsStackRun(body) ==
    /\ Len(body) >= 1
    /\ body[1].op = "assign"
    /\ body[1].value.n = "List"
    /\ body[1].target \in {"stack", "s", "st", "stk"}
    /\ \A i \in 2..Len(body) :
          /\ IsAppendTo(body[i], body[1].target) \/ IsPopOf(body[i], body[1].target)
          /\ IsPopOf(body[i], body[1].target) => StackAfter(body, i - 1) # <<>>

\* C21: for a stack-named list every append and every pop, a pop whose result
\* is assigned to a variable included, gives a step of visualization type
\* "stack" showing the stack after the operation; the text of six statements
\* stack = [], three appends of 10, 20, 30 and two assigned pops gives steps
\* showing [], [10], [10,20], [10,20,30], [10,20], [10].
C21_StackStepsForEveryPop ==
    (Returned /\ language = "python" /\ code.syntax = Parses /\ exc = "none"
        /\ IsStackRun(code.body)) =>
        /\ Len(steps) = Len(code.body)
        /\ \A i \in 1..Len(code.body) :
              /\ steps[i].visualization.type = "stack"
              /\ steps[i].visualization.data = StackAfter(code.body, i)
        /\ code = StackDemo =>
              [i \in 1..6 |-> steps[i].visualization.data]
                = << <<>>, <<PyInt(10)>>, <<PyInt(10), PyInt(20)>>,
                     <<PyInt(10), PyInt(20), PyInt(30)>>,
                     <<PyInt(10), PyInt(20)>>, <<PyInt(10)>> >>

\* ------------------------------------------------- primary and fallback
\* The static analyzer's result is usable: it has a first step whose
\* visualization type is neither "none" nor "error".
StaticUsable ==
    /\ Len(steps) >= 1
    /\ steps[1].visualization.type # "none"
    /\ steps[1].visualization.type # "error"

\* C22: a 200 response of /visualize carries the static analyzer's steps and
\* analyzer = "code_analyzer" exactly when the static analyzer's first step
\* has a visualization type other than "none" and "error"; otherwise it
\* carries analyzer = "universal_visualizer" and steps of the tracer only,
\* none of them a step of the static analyzer.
C22_StaticFirstTracerFallback ==
    (Responded /\ response.status = 200) =>
        /\ response.analyzer \in {"code_analyzer", "universal_visualizer"}
        /\ response.analyzer = "code_analyzer" <=> StaticUsable
        /\ response.analyzer = "code_analyzer" =>
              /\ response.steps = steps
              /\ calls = {"code_analyzer"}
        /\ response.analyzer = "universal_visualizer" =>
              /\ response.steps \in {tr_steps, Truncate(tr_steps, TracerMaxSteps)}
              /\ \A k \in 1..Len(response.steps) :
                    response.steps[k] \notin Range(steps)

\* The tracer answered, with traced steps, after the static analyzer had
\* returned an error step.
C22_Witness ==
    /\ Responded
    /\ response.status = 200
    /\ response.analyzer = "universal_visualizer"
    /\ Len(steps) >= 1
    /\ steps[1].visualization.type = "error"
    /\ Len(response.steps) >= 1

\* ------------------------------------------------------- the visited set
VisitedIn(f) == Range(f.graph.visited)

\* C23: across the frames of one simulation the visited set only grows, no
\* insertion frame inserts a node that is in the visited set, and while the
\* simulation runs the last frame shows the whole visited set.
C23_VisitedGrowsAndGates ==
    /\ \A k \in 1..(Len(traversal_steps) - 1) :
          VisitedIn(traversal_steps[k]) \subseteq VisitedIn(traversal_steps[k + 1])
    /\ \A k \in 2..Len(traversal_steps) :
          IsInsertion(traversal_steps[k]) =>
              LET data == traversal_steps[k].data_structure.data
              IN data[Len(data)] \notin VisitedIn(traversal_steps[k])
    /\ sim_pc \in {"loop", "neighbors"} =>
          VisitedIn(traversal_steps[Len(traversal_steps)]) = visited

\* A run has ended in which a visited node had an edge back to the start
\* node, and more than one node was visited.
C23_Witness ==
    /\ sim_pc = "returned"
    /\ Cardinality(visited) > 1
    /\ start_node \in Successors(graph_data, visited)

\* ----------------------------------------------------------- the frontier
NoDuplicates(seq) == \A i, j \in 1..Len(seq) : seq[i] = seq[j] => i = j

\* C28: while the simulation runs the frontier holds no node twice and no
\* visited node, so the node removed next is never a visited one (the
\* `if current in visited: continue` branch is not taken).
C28_FrontierDistinctUnvisited ==
    sim_pc \in {"loop", "neighbors"} =>
        /\ NoDuplicates(structure)
        /\ Range(structure) \cap visited = {}
        /\ (sim_pc = "loop" /\ structure # <<>>) =>
              PopFrontier(algorithm, structure).node \notin visited

\* A run has ended in which a visited node named the same neighbour twice.
C28_Witness ==
    /\ sim_pc = "returned"
    /\ traversal_steps # <<>>
    /\ \E u \in visited : ~NoDuplicates(Neighbors(graph_data, u))
    /\ Cardinality(visited) > 1

\* ------------------------------------------------------ recursive functions
\* None of the rules before the recursive one matches.
NoEarlierRule == \A j \in Matching : TagRules[j].tag \in {"dfs_recursive", "generic"}

\* C24: when a graph was found and no earlier rule matches, detect_algorithm
\* returns "dfs_recursive" only for a text that defines a function calling
\* itself; a text whose functions are called only from outside their own body
\* gets "generic".
C24_RecursiveTagOnlyForSelfCall ==
    (LastCall = "detect_algorithm" /\ detector.graph_var # "None"
        /\ NoEarlierRule) =>
        /\ det_ret.value = "dfs_recursive" =>
              InText("call of a defined function in its own body")
        /\ (InText("call of a defined function from outside its body")
              /\ ~InText("call of a defined function in its own body")) =>
              det_ret.value = "generic"

\* ------------------------------------------------------ order of the walk
\* The statements of a text that are not for/while/if, in source order, each
\* with its line.
RECURSIVE SourceOrder(_, _)
SourceOrder(stmts, line) ==
    IF stmts = <<>> THEN <<>>
    ELSE (IF stmts[1].op = "block"
          THEN SourceOrder(stmts[1].body, line + 1)
                 \o SourceOrder(stmts[1].orelse, line + 2 + SumLines(stmts[1].body))
          ELSE <<[st |-> stmts[1], line |-> line]>>)
         \o SourceOrder(Tail(stmts), line + LineCount(stmts[1]))

\* The name was recorded as a list by the scan of the assignments.
RecordedAsList(name) ==
    VSHas(variable_states, name) /\ VSGet(variable_states, name).type = "list"

\* The append and pop steps on `name` above source line `line`.
ListStepsAbove(name, line) ==
    {k \in 1..Len(steps) :
        /\ steps[k].line < line
        /\ "operation" \in DOMAIN steps[k].visualization
        /\ steps[k].visualization.operation # "None"
        /\ steps[k].visualization.name = name}

\* The contents tracked for `name` when the walk reaches `line`: those of the
\* last append or pop step above it, else those the scan recorded.
TrackedAt(name, line) ==
    IF ListStepsAbove(name, line) # {}
    THEN steps[CHOOSE k \in ListStepsAbove(name, line) :
                  \A j \in ListStepsAbove(name, line) : j <= k].visualization.data
    ELSE LET recorded == VSGet(CollectStates(code.body, <<>>), name).data
         IN IF Truthy(recorded) THEN recorded.items ELSE <<>>

\* An assignment to a name, an append to a recorded list, or a pop from a
\* recorded list whose tracked contents are not empty.
Recognized(sl) ==
    CASE sl.st.op = "assign" -> TRUE
      [] sl.st.op = "append" -> RecordedAsList(sl.st.obj)
      [] sl.st.op = "pop" ->
           RecordedAsList(sl.st.obj) /\ TrackedAt(sl.st.obj, sl.line) # <<>>
      [] OTHER -> FALSE

RecognizedLines ==
    LET inOrder == SourceOrder(code.body, 1)
    IN {inOrder[i].line : i \in {j \in 1..Len(inOrder) : Recognized(inOrder[j])}}

WalkReturned == InWalk /\ Returned

HasNesting(body) == \E i \in 1..Len(body) : body[i].op = "block"

\* C25: when the walk has run to its end without an exception and has found
\* something to show, the steps are numbered 0, 1, 2, ... in the order they
\* stand in, their lines strictly increase (source order, no statement
\* twice), and the lines that have a step are exactly the lines of the
\* assignments to a name and of the recognized appends and pops, wherever
\* they stand: at the top level, or in the body or the else part of a for,
\* while or if statement at any depth.
C25_WalkInSourceOrderOncePerStatement ==
    WalkReturned =>
        LET expected == RecognizedLines
        IN IF expected = {} THEN steps = <<PlaceholderStep>>
           ELSE /\ \A k \in 1..Len(steps) : steps[k].step = k - 1
                /\ \A k \in 1..(Len(steps) - 1) : steps[k].line < steps[k + 1].line
                /\ {steps[k].line : k \in 1..Len(steps)} = expected

\* A finished walk of a text with a loop inside a loop or conditional whose
\* second-level body and whose else part both gave a step, and a statement
\* after the nested one gave the last step.
C25_Witness ==
    /\ WalkReturned
    /\ Len(code.body) = 3
    /\ code.body[2].op = "block"
    /\ code.body[2].orelse # <<>>
    /\ code.body[2].body[1].op = "block"
    /\ code.body[2].body[1].orelse # <<>>
    /\ Len(steps) = 5
    /\ steps[5].step = 4
    /\ steps[5].line = LineOf(code.body, 3)

\* ------------------------------------------- contents shown by list steps
\* The contents of the list `name` after the statements of inOrder, applied
\* one after the other: a list literal assigned to it replaces the contents,
\* an append adds at the end, pop() takes the last and pop(0) the first item.
RECURSIVE ContentsBy(_, _, _)
ContentsBy(inOrder, name, contents) ==
    IF inOrder = <<>> THEN contents
    ELSE LET st == inOrder[1].st
         IN ContentsBy(Tail(inOrder), name,
               CASE st.op = "assign" /\ st.target = name /\ st.value.n = "List" ->
                      safe_eval_value(st.value).items
                 [] st.op = "append" /\ st.obj = name ->
                      Append(contents, safe_eval_value(st.arg))
                 [] st.op = "pop" /\ st.obj = name /\ contents # <<>> ->
                      (IF st.index = "zero" THEN Tail(contents)
                       ELSE SubSeq(contents, 1, Len(contents) - 1))
                 [] OTHER -> contents)

\* The statements of the text down to source line `line`, in source order.
DownTo(line) ==
    SelectSeq(SourceOrder(code.body, 1), LAMBDA sl : sl.line <= line)

\* Down to `line` the variable is only assigned list literals, at least one,
\* and popped only by pop() and pop(0).
PlainListDownTo(name, line) ==
    /\ \E i \in 1..Len(DownTo(line)) :
          DownTo(line)[i].st.op = "assign" /\ DownTo(line)[i].st.target = name
    /\ \A i \in 1..Len(DownTo(line)) :
          LET st == DownTo(line)[i].st
          IN /\ (st.op = "assign" /\ st.target = name) => st.value.n = "List"
             /\ (st.op = "pop" /\ st.obj = name) => st.index \in {"none", "zero"}

IsListOpStep(step) ==
    /\ "operation" \in DOMAIN step.visualization
    /\ step.visualization.operation # "None"

\* C29: in the walk, the data of every append or pop step on a list variable
\* is what the statements on that variable down to the step's line give when
\* applied in source order: the items of its latest list literal, then the
\* appends and pops after that assignment; also when the variable is
\* assigned more than once.
C29_ListStepShowsContentsSoFar ==
    InWalk =>
      \A k \in 1..Len(steps) :
          (IsListOpStep(steps[k])
             /\ PlainListDownTo(steps[k].visualization.name, steps[k].line)) =>
              steps[k].visualization.data =
                  ContentsBy(DownTo(steps[k].line), steps[k].visualization.name, <<>>)

\* ------------------------------------------------- the tracer's step limit
ExecuteReturned == viz_pc \in {"traced", "trace failed"}

\* C27: whatever execute(max_steps) returns, with success or after the
\* traced text raised, holds at most max_steps traced steps and one marker.
C27_ExecuteReturnsAtMostLimitPlusOne ==
    ExecuteReturned => Len(tr_steps) <= max_steps + 1

\* --------------------------------------------------- the AI call's outcome
Awaited(i) == requests[i].pc = "awaiting"
CacheItems(cache) == Range(cache.items)

\* C26: a request whose AI call times out is answered with status 504 and
\* leaves the response cache as it was; and the cache changes only when the
\* awaited call of some request returned and its text was parsed, the one
\* entry written being that request's reply stored under that request's key.
C26_TimeoutGives504NothingCached ==
    [][/\ \A i \in 1..Len(requests) :
             (Awaited(i) /\ requests'[i].outcome = "timeout") =>
                 /\ requests'[i].pc = "done"
                 /\ requests'[i].reply.status = 504
                 /\ response_cache' = response_cache
       /\ response_cache' # response_cache =>
             \E i \in 1..Len(requests) :
                 /\ Awaited(i)
                 /\ requests'[i].outcome = "ok"
                 /\ requests'[i].reply.status = 200
                 /\ CacheItems(response_cache') \ CacheItems(response_cache)
                       \subseteq {[k |-> KeyOf(Validated(requests[i].req)),
                                    v |-> requests'[i].reply.body]}]_vars

\* Of two requests with the same key one timed out and the other was
\* answered by the AI; the cache holds the answer of the second.
C26_Witness ==
    \E i, j \in 1..Len(requests) :
        /\ requests[i].outcome = "timeout"
        /\ requests[i].reply.status = 504
        /\ requests[j].outcome = "ok"
        /\ KeyOf(Validated(requests[i].req)) = KeyOf(Validated(requests[j].req))
        /\ DictGet(response_cache, KeyOf(Validated(requests[j].req)), PyNone)
              = requests[j].reply.body

\* ------------------------------------------------- concurrent requests
\* The answer was generated for the request: for its code and language, and
\* for /explain its level, by the endpoint asked.
GeneratedFor(answer, req) ==
    /\ answer.kind = req.endpoint
    /\ answer.code = req.code
    /\ answer.language = req.language
    /\ req.endpoint = "explain" => answer.level = req.level

\* The requests in flight that passed validation, as the handlers see them.
ServedRequests ==
    {Validated(requests[i].req) : i \in
        {j \in 1..Len(requests) : ValidRequest(requests[j].req)}}

\* C30: at every point of every interleaving the cache holds at most
\* MAX_CACHE_SIZE entries; an entry under the key of a request is an answer
\* generated for that request's code and language (and level, for /explain)
\* by that request's endpoint, as is every entry for the request that its
\* key was made of; and every 200 reply was generated for the request it
\* answers, so never an explanation for a bug-detection request or the
\* reverse.
C30_CacheBoundedEntriesBelongToKey ==
    /\ Len(response_cache.items) <= MAX_CACHE_SIZE
    /\ \A e \in CacheItems(response_cache) :
          /\ e.k = KeyOf([endpoint |-> e.v.kind, code |-> e.v.code,
                          language |-> e.v.language, level |-> e.v.level])
          /\ \A req \in ServedRequests : e.k = KeyOf(req) => GeneratedFor(e.v, req)
    /\ \A i \in 1..Len(requests) :
          (requests[i].pc = "done" /\ requests[i].reply.status = 200) =>
              GeneratedFor(requests[i].reply.body, Validated(requests[i].req))

\* Two requests for the same key were both suspended at the AI call (neither
\* found the other's answer) and both answered in full, the first of the two
\* writes finding the cache full.
C30_Witness ==
    /\ Len(requests) >= 2
    /\ Len(response_cache.items) >= MAX_CACHE_SIZE - 1
    /\ requests[1].outcome = "ok" /\ requests[2].outcome = "ok"
    /\ requests[1].reply.body.body = "full" /\ requests[2].reply.body.body = "full"
    /\ Len(cache_log) = 2
    /\ cache_log[1].found = MAX_CACHE_SIZE
    /\ KeyOf(Validated(requests[1].req)) = KeyOf(Validated(requests[2].req))

====
